---- MODULE Spec2Model ----
(***************************************************************************)
(* Model of the capybara agent execution engine:                           *)
(*   - ConversationMemory   (src/src/capybara/memory/window.py)            *)
(*   - the todo tool        (src/src/capybara/tools/builtin/todo.py)       *)
(*   - ToolExecutor         (src/src/capybara/core/execution/              *)
(*                           tool_executor.py)                             *)
(*   - Agent.run, AgentStateManager and EventBus                           *)
(*                          (src/src/capybara/core/agent/agent.py,         *)
(*                           state_manager.py, core/event_bus.py)          *)
(* Each subsystem has its own specification (SpecMemory, SpecTodo,         *)
(* SpecExecutor, SpecAgent) over the shared variables.                     *)
(***************************************************************************)
EXTENDS Integers, Sequences, FiniteSets, TLC

VARIABLES
    \* ---- ConversationMemory ----
    messages,        \* self._messages: the window of non-system messages
    system_prompt,   \* self._system_prompt (NoMessage when None)
    max_tokens,      \* MemoryConfig.max_tokens
    max_messages,    \* MemoryConfig.max_messages (0 stands for None)
    openIds,         \* history: call ids of the last added assistant message while
                     \*          only tool messages were added after it
    adjacent,        \* history: every tool message so far was added for an id in openIds
    lastOp,          \* history: the last mutation applied to the memory
    dropped,         \* history: messages the last mutation's trim removed
    nextId,          \* next fresh tool-call id
    ops,             \* number of mutations applied (bounded)
    \* ---- todo tool ----
    todos,           \* _TODOS: the tool's list of TodoItem
    observed,        \* todo_state._todos: the list the observers were last given
    todoResult,      \* history: the last call's action and outcome, whether it
                     \*          notified the observers, whether an item was
                     \*          outstanding before it, and whether it changed the
                     \*          store and what the observers hold
    todoOps,         \* number of todo calls made (bounded)
    \* ---- ToolExecutor.execute_tools ----
    tool_calls,              \* the input list of tool calls
    approve_all,             \* self._approve_all
    execPc,                  \* position of execute_tools
    needs_permission,        \* indexes (into tool_calls) of the needs-prompt calls
    auto_approved,           \* indexes (into tool_calls) of the auto-resolved calls
    seqPhase,                \* position of execute_one of the current needs-prompt call
    results_with_permission, \* results of the needs-prompt calls, in their order
    autoPhase,               \* position of execute_one of every auto-resolved call
    results_auto,            \* gather's result list (a message or an exception each)
    processed,               \* the list execute_tools returns
    decisions,               \* history: the permission decision taken for every call
    tool_trace,              \* history: per call, the tool events published for it,
                             \* whether its handler was invoked, whether the user was prompted
    \* ---- Agent.run, AgentStateManager, EventBus ----
    agentPc,         \* position of Agent.run
    current_turn,    \* self._current_turn
    max_turns,       \* self.config.max_turns
    state,           \* self.status.state
    pending_tasks,   \* publish tasks made by asyncio.create_task that have not run yet
    yielded,         \* the event loop has had control since Agent.run's last step
    event_history,   \* EventBus._history[session_id]
    subPc,           \* position of the one subscriber of the session
    queue,           \* the subscriber's asyncio.Queue
    received,        \* the events the subscriber's stream has yielded
    memory,          \* self.memory: [messages, system_prompt]
    memory_config,   \* self.memory.config: [max_tokens, max_messages]
    addLog,          \* history: the provider calls and memory.add calls of the run
    response,        \* history: the kind of the last provider response
    result,          \* what Agent.run returned
    \* ---- delegation (sub_agent) ----
    sessions,        \* storage: the session table, id -> [parent_id, agent_mode]
    agent_tools,     \* Agent.tools of the agent of every session
    child_sessions,  \* Agent.status.child_sessions of the agent of every session
    status_state,    \* Agent.status.state of the agent of every session
    delegations,     \* the calls of execute_sub_agent, indexed by the child's session id
    tool_results,    \* history: the tool results handed to every agent's turn
    session_events,  \* storage: the events written by log_session_event
    \* ---- EventBus with several sessions and subscribers ----
    bus_history,     \* EventBus._history
    bus_subscribers, \* EventBus._subscribers: the queues registered for a session
    sub_pc,          \* position of every subscribe generator
    sub_session,     \* the session every subscriber asked for
    sub_queue,       \* the asyncio.Queue of every subscriber
    sub_yielded,     \* history: the events every subscriber's stream has yielded
    publish_log,     \* history: every event published, in publish order
    published,       \* number of publish calls made (bounded)
    cleared_at,      \* history: length of publish_log at the session's last cleanup
    sub_from,        \* history: length of publish_log when the subscriber registered
    sub_cleared,     \* history: cleared_at of its session when the subscriber registered
    sub_until,       \* history: length of publish_log when the queue left the bus
    \* ---- ToolRegistry ----
    tool_registry,   \* a ToolRegistry: [tools, schemas, restrictions]
    filtered,        \* the registry the last filter_by_mode call returned
    filter_mode,     \* the mode of the last filter_by_mode call
    registry_before, \* history: the registry as it was when the last call began
    executed,        \* the outcome of the last execute call
    regOp,           \* history: the last operation on the registry
    regOps,          \* number of registry operations made (bounded)
    \* ---- one delegation on the event loop: wait_for(gather(run, progress)) ----
    loop_ready,      \* the event loop's queue of ready callbacks, run first in first out
    child_task,      \* the task of child_agent.run: [pc, scheduled, must_cancel, input, turn]
    display_task,    \* the task of display_sub_agent_progress: [pc, scheduled, must_cancel]
    agen,            \* position of the generator event_bus.subscribe(child_session_id)
    child_subscribers, \* EventBus._subscribers[child_session_id]: the queues registered
    child_queue,     \* that asyncio.Queue
    child_events,    \* EventBus._history[child_session_id]: every event the child published
    provider_calls,  \* history: provider calls the child has made
    tool_invocations,\* history: tool handlers the child has invoked
    wait_for,        \* execute_sub_agent at its wait_for: [pc, timer, waiter_done]
    at_return,       \* history: the child's counters when sub_agent returned
    \* ---- Agent.status over the runs of one agent ----
    run_pc,          \* position of Agent.run: new, completion, executing, returned, raised
    run_turn,        \* the turn Agent.run is in
    run_max_turns,   \* config.max_turns
    runs,            \* number of Agent.run calls made (bounded)
    run_mode,        \* config.mode: parent or child
    agent_status,    \* Agent.status: [state, child_sessions]
    delegating,      \* the child sessions whose execute_sub_agent is in flight
    next_child,      \* the next child session id
    updates,         \* history: the update_state calls of the last step
    run_memory,      \* Agent.memory of that agent: [messages, system_prompt]
    \* ---- the timeout analysis of one child ----
    execution_log,   \* child_agent.execution_log.tool_executions
    analysis_timeout,\* the timeout of the sub_agent call, in seconds
    analysis_pc,     \* the child: running, timed_out, returned
    child_failure,   \* the ChildFailure analyze_timeout_failure returned
    files_read,      \* child_agent.execution_log.files_read
    files_written,   \* child_agent.execution_log.files_written
    files_edited,    \* child_agent.execution_log.files_edited
    \* ---- stream_completion ----
    collected_content,    \* collected_content: the content deltas received
    collected_tool_calls, \* collected_tool_calls: dict index -> call, in insertion order
    stream_pc,            \* streaming, returned
    stream_message,       \* the message stream_completion returned
    stream_deltas         \* history: the tool-call deltas received, in arrival order

memVars == <<messages, system_prompt, max_tokens, max_messages, openIds,
             adjacent, lastOp, dropped, nextId, ops>>

todoVars == <<todos, observed, todoResult, todoOps>>

execVars == <<tool_calls, approve_all, execPc, needs_permission, auto_approved,
              seqPhase, results_with_permission, autoPhase, results_auto, processed,
              decisions, tool_trace>>

agentVars == <<agentPc, current_turn, max_turns, state, pending_tasks, yielded,
               event_history, subPc, queue, received, memory, memory_config, addLog,
               response, result>>

delegVars == <<sessions, agent_tools, child_sessions, status_state, delegations,
               tool_results, session_events>>

busVars == <<bus_history, bus_subscribers, sub_pc, sub_session, sub_queue, sub_yielded,
             publish_log, published, cleared_at, sub_from, sub_cleared, sub_until>>

regVars == <<tool_registry, filtered, filter_mode, registry_before, executed, regOp, regOps>>

loopVars == <<loop_ready, child_task, display_task, agen, child_subscribers, child_queue,
              child_events, provider_calls, tool_invocations, wait_for, at_return>>

statusVars == <<run_pc, run_turn, run_max_turns, runs, run_mode, agent_status, delegating,
                next_child, updates, run_memory>>

analysisVars == <<execution_log, analysis_timeout, analysis_pc, child_failure, files_read,
                  files_written, files_edited>>

streamVars == <<collected_content, collected_tool_calls, stream_pc, stream_message,
                stream_deltas>>

moreVars == <<streamVars>>

extVars == <<delegVars, busVars, regVars, loopVars, statusVars, analysisVars, moreVars>>

vars == <<memVars, todoVars, execVars, agentVars, extVars>>

-----------------------------------------------------------------------------
(* Bounds of the model *)

MaxOps == 3        \* messages handed to / mutations of the memory per behaviour
MaxTok == 1        \* largest token length of one content / one tool call
MaxCalls == 2      \* tool calls per assistant message
MaxBudget == 2     \* largest max_tokens configured
MaxTodoOps == 3    \* todo calls per behaviour
MaxTodos == 2      \* items per written list, and distinct item ids
MaxBatchCalls == 2 \* tool calls handed to one execute_tools call
MaxTurns == 2      \* largest max_turns configured
MaxChildren == 2   \* child sessions created by delegation
MaxBusCalls == 4   \* publish and subscribe calls made on the bus
MaxLongTok == 3    \* largest token length of a long user message
MaxWindow == 3     \* messages in a window handed to the trimmer on its own
MaxRegOps == 3     \* operations made on a tool registry
MaxChildTurns == 2 \* the child's config.max_turns
MaxRuns == 2       \* calls of Agent.run on one agent
MaxLogLen == 3     \* tool executions in one child's execution log
MaxDeltas == 3     \* tool-call deltas and content deltas of one stream

-----------------------------------------------------------------------------
(* Messages.  A message is modelled by its role, the token length of its   *)
(* content (0: no content or the empty string), its tool calls (each with  *)
(* an id and the token length of name plus arguments) and tool_call_id.    *)

NoMessage == [role |-> "none", content |-> 0, calls |-> <<>>, tool_call_id |-> 0]

TextMsg(r, toks) == [role |-> r, content |-> toks, calls |-> <<>>, tool_call_id |-> 0]

ToolMsg(id, toks) == [role |-> "tool", content |-> toks, calls |-> <<>>, tool_call_id |-> id]

CallsMsg(toks, first, n, ctoks) ==
    [role |-> "assistant", content |-> toks,
     calls |-> [i \in 1..n |-> [id |-> first + i - 1, toks |-> ctoks]],
     tool_call_id |-> 0]

CallIds(m) == {m.calls[i].id : i \in 1..Len(m.calls)}

RECURSIVE SumCallTokens(_)
SumCallTokens(calls) ==
    IF calls = <<>> THEN 0 ELSE Head(calls).toks + SumCallTokens(Tail(calls))

\* _count_tokens: the content when it is non-empty, else the tool calls
CountTokens(m) ==
    IF m.content > 0 THEN m.content ELSE SumCallTokens(m.calls)

RECURSIVE SumTokens(_)
SumTokens(msgs) ==
    IF msgs = <<>> THEN 0 ELSE CountTokens(Head(msgs)) + SumTokens(Tail(msgs))

SystemTokens(sys) == IF sys = NoMessage THEN 0 ELSE CountTokens(sys)

\* get_token_count
GetTokenCount(msgs, sys) == SumTokens(msgs) + SystemTokens(sys)

\* get_messages: system prompt (if any) followed by the window
GetMessages(msgs, sys) == IF sys = NoMessage THEN msgs ELSE <<sys>> \o msgs

-----------------------------------------------------------------------------
(* The trimmer *)

RECURSIVE LeadingTools(_)
LeadingTools(msgs) ==
    IF msgs = <<>> \/ Head(msgs).role # "tool" THEN 0
    ELSE 1 + LeadingTools(Tail(msgs))

FindRemovableNone(msgs) == 0

\* _find_removable_messages
FindRemovableMessages(msgs) ==
    IF msgs = <<>> THEN 0
    ELSE IF Head(msgs).role = "assistant" /\ Head(msgs).calls # <<>>
         THEN 1 + LeadingTools(Tail(msgs))
    ELSE IF Head(msgs).role = "tool" THEN LeadingTools(msgs)
    ELSE 1

\* _trim, first step: keep the last max_messages messages
CountTrim(msgs, maxMsgs) ==
    IF maxMsgs # 0 /\ Len(msgs) > maxMsgs
    THEN SubSeq(msgs, Len(msgs) - maxMsgs + 1, Len(msgs))
    ELSE msgs

\* _trim, the while loop: drop removable prefixes while over budget
RECURSIVE TokenTrim(_, _, _)
TokenTrim(msgs, sysTok, maxTok) ==
    IF sysTok + SumTokens(msgs) > maxTok /\ Len(msgs) > 1
    THEN LET k == FindRemovableMessages(msgs) IN
         IF k = 0 \/ k >= Len(msgs) THEN msgs
         ELSE TokenTrim(SubSeq(msgs, k + 1, Len(msgs)), sysTok, maxTok)
    ELSE msgs

\* a cleanup that drops one leading tool message only
RemoveOneOrphan(msgs) ==
    IF msgs # <<>> /\ Head(msgs).role = "tool" /\ Len(msgs) > 1 THEN Tail(msgs) ELSE msgs

RemoveOrphanedNone(msgs) == msgs

\* _remove_orphaned_tool_messages
RECURSIVE RemoveOrphanedToolMessages(_)
RemoveOrphanedToolMessages(msgs) ==
    IF msgs # <<>> /\ Head(msgs).role = "tool" /\ Len(msgs) > 1
    THEN RemoveOrphanedToolMessages(Tail(msgs))
    ELSE msgs

\* a trimmer that keeps the longest suffix within the limits, whatever
\* message it starts with
TrimToFit(msgs, sys, maxTok, maxMsgs) ==
    LET kept == CountTrim(msgs, maxMsgs)
        fits == {k \in 1..Len(kept) :
                    SystemTokens(sys) + SumTokens(SubSeq(kept, k, Len(kept))) <= maxTok}
    IN IF fits = {} THEN SubSeq(kept, Len(kept), Len(kept))
       ELSE LET first == CHOOSE k \in fits : \A j \in fits : k <= j
            IN SubSeq(kept, first, Len(kept))

\* _trim
Trim(msgs, sys, maxTok, maxMsgs) ==
    RemoveOrphanedToolMessages(
        TokenTrim(CountTrim(msgs, maxMsgs), SystemTokens(sys), maxTok))

\* add: a system message replaces the prompt (no trim), any other message
\* is appended and the window trimmed
MemoryAdd(mem, m, maxTok, maxMsgs) ==
    IF m.role = "system"
    THEN [messages |-> mem.messages, system_prompt |-> m]
    ELSE [messages |-> Trim(Append(mem.messages, m), mem.system_prompt, maxTok, maxMsgs),
          system_prompt |-> mem.system_prompt]

\* add_batch, the loop: append without trimming
RECURSIVE AppendAll(_, _)
AppendAll(mem, batch) ==
    IF batch = <<>> THEN mem
    ELSE AppendAll(
           IF Head(batch).role = "system"
           THEN [messages |-> mem.messages, system_prompt |-> Head(batch)]
           ELSE [messages |-> Append(mem.messages, Head(batch)),
                 system_prompt |-> mem.system_prompt],
           Tail(batch))

\* add_batch: append all, then trim once
MemoryAddBatch(mem, batch, maxTok, maxMsgs) ==
    LET all == AppendAll(mem, batch) IN
    [messages |-> Trim(all.messages, all.system_prompt, maxTok, maxMsgs),
     system_prompt |-> all.system_prompt]

-----------------------------------------------------------------------------
(* Inputs of the memory: message shapes.  An assistant message with tool   *)
(* calls takes fresh call ids; a tool message names an id some assistant   *)
(* message added earlier carries.                                          *)

TextShapes ==
    [kind : {"user", "system"}, toks : 1..MaxTok, n : {0}, ctoks : {0}, id : {0}]

CallsShapes ==
    [kind : {"calls"}, toks : {0}, n : 1..MaxCalls, ctoks : {1}, id : {0}]

ToolShapes(ids) ==
    [kind : {"tool"}, toks : 1..MaxTok, n : {0}, ctoks : {0}, id : ids]

ShapeMsg(s, first) ==
    CASE s.kind = "tool" -> ToolMsg(s.id, s.toks)
      [] s.kind = "calls" -> CallsMsg(s.toks, first, s.n, s.ctoks)
      [] OTHER -> TextMsg(s.kind, s.toks)

Mem == [messages |-> messages, system_prompt |-> system_prompt]

\* the history variables after message m was handed to the memory
HistoryAfter(h, m) ==
    CASE m.role = "tool" ->
            [h EXCEPT !.adjacent = h.adjacent /\ m.tool_call_id \in h.openIds]
      [] m.role = "assistant" /\ m.calls # <<>> ->
            [h EXCEPT !.openIds = CallIds(m), !.nextId = h.nextId + Len(m.calls)]
      [] m.role = "system" -> h
      [] OTHER -> [h EXCEPT !.openIds = {}]

History == [openIds |-> openIds, adjacent |-> adjacent, nextId |-> nextId]

\* the call ids carried by the assistant messages added so far
Issued(h) == 1..(h.nextId - 1)

\* the shapes that may be handed over next: every tool message names an id
\* issued before it
ShapesAt(h) == TextShapes \cup CallsShapes \cup ToolShapes(Issued(h))

MemInit ==
    /\ messages = <<>>
    /\ system_prompt = NoMessage
    /\ max_tokens \in 1..MaxBudget
    /\ max_messages \in {0, 2}
    /\ openIds = {}
    /\ adjacent = TRUE
    /\ lastOp = "init"
    /\ dropped = 0
    /\ nextId = 1
    /\ ops = 0

SetHistory(h) ==
    /\ openIds' = h.openIds
    /\ adjacent' = h.adjacent
    /\ nextId' = h.nextId

\* ConversationMemory.add(message), for the message of shape s
AddMessage(s) ==
    LET m == ShapeMsg(s, nextId)
        r == MemoryAdd(Mem, m, max_tokens, max_messages)
    IN /\ messages' = r.messages
       /\ system_prompt' = r.system_prompt
       /\ SetHistory(HistoryAfter(History, m))
       /\ lastOp' = IF m.role = "system" THEN "add_system" ELSE "add"
       /\ dropped' = IF m.role = "system" THEN 0
                     ELSE Len(messages) + 1 - Len(r.messages)

\* ConversationMemory.add(message)
Add ==
    /\ ops < MaxOps
    /\ \E s \in ShapesAt(History) : AddMessage(s)
    /\ ops' = ops + 1
    /\ UNCHANGED <<max_tokens, max_messages, todoVars, execVars, agentVars, extVars>>

\* the messages and the history of a batch of shapes
RECURSIVE BuildBatch(_, _, _)
BuildBatch(shapes, h, acc) ==
    IF shapes = <<>> THEN [batch |-> acc, history |-> h]
    ELSE LET m == ShapeMsg(Head(shapes), h.nextId) IN
         BuildBatch(Tail(shapes), HistoryAfter(h, m), Append(acc, m))

\* the batches of at most k messages
RECURSIVE BatchShapes(_, _)
BatchShapes(h, k) ==
    IF k = 0 THEN {<<>>}
    ELSE {<<>>} \cup
         UNION {{<<s>> \o rest :
                   rest \in BatchShapes(HistoryAfter(h, ShapeMsg(s, h.nextId)), k - 1)} :
                s \in ShapesAt(h)}

\* ConversationMemory.add_batch(messages)
AddBatch ==
    /\ ops < MaxOps
    /\ \E shapes \in BatchShapes(History, MaxOps - ops) :
         LET b == BuildBatch(shapes, History, <<>>)
             r == MemoryAddBatch(Mem, b.batch, max_tokens, max_messages)
         IN /\ messages' = r.messages
            /\ system_prompt' = r.system_prompt
            /\ SetHistory(b.history)
            /\ dropped' = Len(AppendAll(Mem, b.batch).messages) - Len(r.messages)
            /\ ops' = ops + (IF shapes = <<>> THEN 1 ELSE Len(shapes))
    /\ lastOp' = "add_batch"
    /\ UNCHANGED <<max_tokens, max_messages, todoVars, execVars, agentVars, extVars>>

\* ConversationMemory.set_system_prompt(content)
SetSystemPrompt ==
    /\ ops < MaxOps
    /\ \E toks \in 0..MaxTok : system_prompt' = TextMsg("system", toks)
    /\ lastOp' = "set_system_prompt"
    /\ dropped' = 0
    /\ ops' = ops + 1
    /\ UNCHANGED <<messages, max_tokens, max_messages, openIds, adjacent, nextId, todoVars, execVars, agentVars, extVars>>

\* ConversationMemory.clear()
Clear ==
    /\ ops < MaxOps
    /\ messages' = <<>>
    /\ lastOp' = "clear"
    /\ dropped' = 0
    /\ ops' = ops + 1
    /\ UNCHANGED <<system_prompt, max_tokens, max_messages, openIds, adjacent, nextId, todoVars, execVars, agentVars, extVars>>

-----------------------------------------------------------------------------
(* The window of the trimming scenario: a memory that was handed a user    *)
(* message, an assistant message with one tool call and the tool message   *)
(* of that call, and still holds all three.                                *)

ScenarioWindow == <<TextMsg("user", 1), CallsMsg(0, 1, 1, 1), ToolMsg(1, 1)>>

\* max_tokens of the scenario: from the tokens of the window upwards
ScenarioBudgets == Len(ScenarioWindow)..(Len(ScenarioWindow) + MaxBudget)

\* max_messages of the scenario: no limit, the window, one more
ScenarioLimits == {0, Len(ScenarioWindow), Len(ScenarioWindow) + 1}

\* the messages handed over in the scenario: those of ShapesAt and user
\* messages long enough to push the whole window out
ScenarioShapes(h) ==
    ShapesAt(h)
    \cup [kind : {"user"}, toks : 1..MaxLongTok, n : {0}, ctoks : {0}, id : {0}]

\* the memory after add(m1), add(assistant), add(tool) on an empty window
ScenarioMemory(sys, maxTok, maxMsgs) ==
    MemoryAdd(
        MemoryAdd(
            MemoryAdd([messages |-> <<>>, system_prompt |-> sys],
                      ScenarioWindow[1], maxTok, maxMsgs),
            ScenarioWindow[2], maxTok, maxMsgs),
        ScenarioWindow[3], maxTok, maxMsgs)

ScenarioInit ==
    /\ max_tokens \in ScenarioBudgets
    /\ max_messages \in ScenarioLimits
    /\ system_prompt \in {NoMessage, TextMsg("system", 1)}
    /\ messages = ScenarioMemory(system_prompt, max_tokens, max_messages).messages
    /\ messages = ScenarioWindow
    /\ openIds = {1}
    /\ adjacent = TRUE
    /\ lastOp = "add"
    /\ dropped = 0
    /\ nextId = 2
    /\ ops = 0

\* ConversationMemory.add(message) on the memory of the scenario
ScenarioAdd ==
    /\ ops < MaxOps
    /\ \E s \in ScenarioShapes(History) : AddMessage(s)
    /\ ops' = ops + 1
    /\ UNCHANGED <<max_tokens, max_messages, todoVars, execVars, agentVars, extVars>>

-----------------------------------------------------------------------------
(* The trimmer on its own: a memory whose window holds any messages (as    *)
(* after the appends of add_batch), on which _trim runs, and runs again.   *)

\* the windows handed to the trimmer: up to MaxWindow messages, each a user
\* message, an assistant message with tool calls, or a tool message
TrimWindows ==
    LET shapes == [kind : {"user"}, toks : 1..MaxTok, n : {0}, ctoks : {0}, id : {0}]
                  \cup CallsShapes \cup ToolShapes({1})
    IN UNION {[1..k -> {ShapeMsg(s, 1) : s \in shapes}] : k \in 0..MaxWindow}

TrimmerInit ==
    /\ messages \in TrimWindows
    /\ system_prompt \in {NoMessage, TextMsg("system", 1)}
    /\ max_tokens \in 1..(MaxBudget + 1)
    /\ max_messages \in {0, 2}
    /\ openIds = {}
    /\ adjacent = TRUE
    /\ lastOp = "init"
    /\ dropped = 0
    /\ nextId = 1
    /\ ops = 0

\* self._trim()
RunTrim ==
    /\ ops < 2
    /\ messages' = Trim(messages, system_prompt, max_tokens, max_messages)
    /\ lastOp' = "trim"
    /\ dropped' = Len(messages) - Len(messages')
    /\ ops' = ops + 1
    /\ UNCHANGED <<system_prompt, max_tokens, max_messages, openIds, adjacent, nextId,
                   todoVars, execVars, agentVars, extVars>>

-----------------------------------------------------------------------------
(* The todo tool.  A TodoItem is [id, content, status, priority]; the     *)
(* value "bogus" stands for a string the TodoStatus / TodoPriority enum    *)
(* rejects, the id 0 / the value NoValue for an argument that is None.     *)

TodoStatuses == {"pending", "in_progress", "completed", "cancelled"}

TodoPriorities == {"low", "medium", "high"}

NoValue == "none"

\* TodoItem(**item): pydantic validation of one item
ValidItem(item) == item.status \in TodoStatuses /\ item.priority \in TodoPriorities

InProgressCount(list) ==
    Cardinality({i \in 1..Len(list) : list[i].status = "in_progress"})

IdsUnique(list) ==
    \A i, j \in 1..Len(list) : list[i].id = list[j].id => i = j

AllCompleted(list) == \A i \in 1..Len(list) : list[i].status = "completed"

\* index of the first item with the id, 0 when there is none
FindTodo(list, id) ==
    IF \E i \in 1..Len(list) : list[i].id = id
    THEN CHOOSE i \in 1..Len(list) :
            list[i].id = id /\ \A j \in 1..(i - 1) : list[j].id # id
    ELSE 0

WriteUnlocked(list) == TRUE

\* write: the list is empty or every item is completed
WriteAllowed(list) == list = <<>> \/ AllCompleted(list)

InProgressUnchecked(list) == TRUE

\* the sequential-execution rule: at most one item is in_progress
InProgressRule(list) == InProgressCount(list) <= 1

\* todo(action="write", todos=...): the new list, or "error"
WriteOutcome(list, given, new) ==
    IF ~WriteAllowed(list) THEN "error"
    ELSE IF ~given THEN "error"
    ELSE IF \E i \in 1..Len(new) : ~ValidItem(new[i]) THEN "error"
    ELSE IF ~IdsUnique(new) THEN "error"
    ELSE IF ~InProgressRule(new) THEN "error"
    ELSE "ok"

\* todo(action="update", ...): the updated item
UpdatedItem(old, status, content, priority) ==
    [id |-> old.id,
     content |-> IF content # NoValue THEN content ELSE old.content,
     status |-> IF status # NoValue THEN status ELSE old.status,
     priority |-> IF priority # NoValue THEN priority ELSE old.priority]

UpdateOutcome(list, id, status, content, priority) ==
    IF list = <<>> THEN "error"
    ELSE IF id = 0 THEN "error"
    ELSE IF FindTodo(list, id) = 0 THEN "error"
    ELSE LET i == FindTodo(list, id)
             item == UpdatedItem(list[i], status, content, priority)
         IN IF ~ValidItem(item) THEN "error"
            ELSE IF ~InProgressRule([list EXCEPT ![i] = item]) THEN "error"
            ELSE "ok"

CompleteOutcome(list, id) ==
    IF list = <<>> THEN "error"
    ELSE IF id = 0 THEN "error"
    ELSE IF FindTodo(list, id) = 0 THEN "error"
    ELSE "ok"

TodoInit ==
    /\ todos = <<>>
    /\ observed = <<>>
    /\ todoResult = [action |-> "none", outcome |-> "none", notified |-> FALSE,
                     outstanding |-> FALSE, stored |-> FALSE, told |-> FALSE,
                     wellformed |-> FALSE]
    /\ todoOps = 0

\* a candidate list that is the stored list itself: building it is storing it
StoreAliased(old, new, accepted) == new

\* write and update build the candidate in a list of its own (a new list, or
\* _TODOS.copy()) and assign it to the store only after the checks passed
StoreAfterCheck(old, new, accepted) == IF accepted THEN new ELSE old

\* a mutation that tells the state manager nothing
NotifyNobody(list) == UNCHANGED observed

\* _notify_state_change(list): todo_state.update_todos copies the list
NotifyStateChange(list) == observed' = list

\* the list given to write passes the checks write makes on its argument
WellFormed(given, new) ==
    /\ given
    /\ \A i \in 1..Len(new) : ValidItem(new[i])
    /\ IdsUnique(new)
    /\ InProgressRule(new)

\* one call of the tool: only a successful mutation notifies
TodoCallOf(action, outcome, wellformed) ==
    /\ todoOps < MaxTodoOps
    /\ todoOps' = todoOps + 1
    /\ todoResult' = [action |-> action, outcome |-> outcome,
                      notified |-> (outcome = "ok" /\ action # "read"),
                      outstanding |-> (\E i \in 1..Len(todos) :
                                          todos[i].status # "completed"),
                      stored |-> (todos' # todos),
                      told |-> (observed' # observed),
                      wellformed |-> wellformed]
    /\ UNCHANGED <<memVars, execVars, agentVars, extVars>>

TodoCall(action, outcome) == TodoCallOf(action, outcome, FALSE)

InputItems ==
    [id : 1..MaxTodos, content : {"c1"}, status : TodoStatuses, priority : {"medium"}]

\* items that TodoItem(**item) rejects
InvalidItems ==
    {[id |-> 1, content |-> "c1", status |-> "bogus", priority |-> "medium"],
     [id |-> 1, content |-> "c1", status |-> "pending", priority |-> "bogus"]}

\* the lists given to write: every list of valid items, and lists whose last
\* item is an invalid one
InputLists ==
    UNION {[1..k -> InputItems] : k \in 0..MaxTodos}
    \cup {<<bad>> : bad \in InvalidItems}
    \cup {<<good, bad>> : good \in InputItems, bad \in InvalidItems}

\* the lists given to a write made while the store holds outstanding items
\* (write returns before it looks at them): the second and the third list of
\* test_transition_between_tasks
LockedInputs ==
    {<<[id |-> 1, content |-> "c1", status |-> "completed", priority |-> "medium"],
       [id |-> 2, content |-> "c1", status |-> "in_progress", priority |-> "medium"]>>,
     <<[id |-> 1, content |-> "c1", status |-> "in_progress", priority |-> "medium"],
       [id |-> 2, content |-> "c1", status |-> "in_progress", priority |-> "medium"]>>}

\* todo(action="read")
TodoRead ==
    /\ UNCHANGED <<todos, observed>>
    /\ TodoCall("read", "ok")

\* todo(action="write", todos=new)
TodoWrite ==
    IF ~WriteAllowed(todos)
    THEN \E new \in LockedInputs :
            /\ UNCHANGED <<todos, observed>>
            /\ TodoCallOf("write", "error", WellFormed(TRUE, new))
    ELSE \E given \in BOOLEAN :
         \E new \in IF given THEN InputLists ELSE {<<>>} :
            LET out == WriteOutcome(todos, given, new) IN
            /\ IF given /\ \A i \in 1..Len(new) : ValidItem(new[i])
               THEN /\ todos' = StoreAfterCheck(todos, new, out = "ok")
                    /\ IF out = "ok" THEN NotifyStateChange(new) ELSE UNCHANGED observed
               ELSE UNCHANGED <<todos, observed>>
            /\ TodoCallOf("write", out, WellFormed(given, new))

\* the status, content and priority arguments given to update: any status, or a
\* new content, or a priority the enum rejects
UpdateInputs ==
    {<<st, NoValue, NoValue>> : st \in TodoStatuses \cup {"bogus", NoValue}}
    \cup {<<NoValue, "c2", NoValue>>, <<NoValue, NoValue, "bogus">>}

\* todo(action="update", id=..., status=..., content=..., priority=...)
TodoUpdate ==
    \E id \in 0..(MaxTodos + 1), given \in UpdateInputs :
        LET status == given[1]
            content == given[2]
            priority == given[3]
            out == UpdateOutcome(todos, id, status, content, priority)
            i == FindTodo(todos, id)
        IN
        /\ IF id # 0 /\ i # 0 /\ ValidItem(UpdatedItem(todos[i], status, content, priority))
           THEN LET new == [todos EXCEPT ![i] = UpdatedItem(todos[i], status, content, priority)]
                IN /\ todos' = StoreAfterCheck(todos, new, out = "ok")
                   /\ IF out = "ok" THEN NotifyStateChange(new) ELSE UNCHANGED observed
           ELSE UNCHANGED <<todos, observed>>
        /\ TodoCall("update", out)

\* todo(action="complete", id=...)
TodoComplete ==
    \E id \in 0..(MaxTodos + 1) :
        LET out == CompleteOutcome(todos, id) IN
        /\ IF out = "ok"
           THEN LET i == FindTodo(todos, id)
                    new == [todos EXCEPT ![i].status = "completed"]
                IN todos' = new /\ NotifyStateChange(new)
           ELSE UNCHANGED <<todos, observed>>
        /\ TodoCall("complete", out)

\* todo(action="delete")
TodoDelete ==
    IF todos = <<>>
    THEN /\ UNCHANGED <<todos, observed>>
         /\ TodoCall("delete", "noop")
    ELSE /\ todos' = <<>>
         /\ NotifyStateChange(<<>>)
         /\ TodoCall("delete", "ok")

-----------------------------------------------------------------------------
(* ToolExecutor.  A tool call is [id, tool, args]; args is the kind of the *)
(* raw arguments string: "malformed" (json.loads fails), "nonobject" (JSON *)
(* that is no object), or an object whose str() matches an allowlist       *)
(* pattern ("allow"), a denylist pattern ("deny"), both ("both") or        *)
(* neither ("plain").                                                      *)

\* tools_config.security.get(name).permission; "none": no config for the tool
PermissionOf(tool) ==
    CASE tool = "write_file" -> "always"
      [] tool = "delete" -> "never"
      [] tool = "bash" -> "ask"
      [] OTHER -> "none"

\* name in registry._tools
Registered(tool) == tool # "ghost"

MatchesAllowlist(call) == call.args \in {"allow", "both"}

MatchesDenylist(call) == call.args \in {"deny", "both"}

\* a parser that accepts every arguments string
ParsesAnything(call) == TRUE

\* json.loads(args_str) succeeds
Parses(call) == call.args # "malformed"

\* args is a dict: args.items() exists
IsObject(call) == call.args \notin {"malformed", "nonobject"}

\* a classification that takes every call for auto-resolved
NeedsNoPrompt(call, flag) == FALSE

\* _needs_user_permission
NeedsUserPermission(call, flag) ==
    /\ PermissionOf(call.tool) = "ask"
    /\ ~MatchesAllowlist(call)
    /\ ~MatchesDenylist(call)
    /\ ~flag

\* a gate that allows every call
PermitAll(call, flag) == "allow"

\* _check_permission up to the prompt: "allow", "deny", or "ask" the user
CheckPermission(call, flag) ==
    CASE PermissionOf(call.tool) = "none" -> "allow"
      [] PermissionOf(call.tool) = "never" -> "deny"
      [] PermissionOf(call.tool) = "always" -> "allow"
      [] OTHER -> IF flag THEN "allow"
                  ELSE IF MatchesAllowlist(call) THEN "allow"
                  ELSE IF MatchesDenylist(call) THEN "deny"
                  ELSE "ask"

\* _ask_user_permission: the decision for the user's choice
\* (y or empty: accept, n / interrupt / error: deny, a: approve all)
AnswerAllows(choice) == choice \in {"y", "a"}

\* results of execute_one
Message(call, content) ==
    [kind |-> "message", tool_call_id |-> call.id, content |-> content]

Exception == [kind |-> "exception", tool_call_id |-> 0, content |-> "AttributeError"]

NoResult == [kind |-> "none", tool_call_id |-> 0, content |-> "none"]

\* what self.tools.execute(name, args) can return: the handler's string, the
\* handler's "Error: ..." string, the registry's "Error: <type>: <msg>" for a
\* handler that raised, the registry's "Error: Unknown tool"
HandlerOutcomes(call) ==
    IF Registered(call.tool) THEN {"ok", "handler_error", "handler_raised"}
    ELSE {"unknown_tool"}

\* the processing loop reads tool_calls[i] for the i-th combined result
ProcessedIndex(results, i) == i

\* execute_tools, combining and processing the results: needs-prompt results
\* first, then gather's; an exception becomes an error message
ProcessResults(results, calls) ==
    [i \in 1..Len(results) |->
        IF results[i].kind = "message" THEN results[i]
        ELSE [kind |-> "message",
              tool_call_id |-> calls[ProcessedIndex(results, i)].id,
              content |-> "gather_exception"]]

\* the partition loop of execute_tools
RECURSIVE SelectIndexes(_, _, _, _)
SelectIndexes(calls, flag, wantNeeds, i) ==
    IF i > Len(calls) THEN <<>>
    ELSE LET needs == Parses(calls[i]) /\ NeedsUserPermission(calls[i], flag) IN
         (IF needs = wantNeeds THEN <<i>> ELSE <<>>)
            \o SelectIndexes(calls, flag, wantNeeds, i + 1)

CallKinds ==
    [tool : {"read_file"}, args : {"plain", "malformed", "nonobject"}]
    \cup [tool : {"write_file", "delete", "ghost"}, args : {"plain"}]
    \cup [tool : {"bash"}, args : {"plain", "allow", "deny", "both", "nonobject", "malformed"}]

CallBatches ==
    UNION {[1..n -> CallKinds] : n \in 1..MaxBatchCalls}

\* the tool calls of kinds, with ids first, first + 1, ...
MakeCallsFrom(kinds, first) ==
    [i \in 1..Len(kinds) |->
        [id |-> first + i - 1, tool |-> kinds[i].tool, args |-> kinds[i].args]]

MakeCalls(kinds) == MakeCallsFrom(kinds, 1)

NoDecision == [decision |-> "none", flag |-> FALSE, answer |-> "none"]

NoTrace == [events |-> <<>>, invoked |-> FALSE, prompted |-> FALSE, recorded |-> "none"]

\* the event execute_one publishes for what self.tools.execute returned:
\* tool_error for a string that starts with "Error:", tool_done otherwise
ResultEvent(outcome) == IF outcome = "ok" THEN "tool_done" ELSE "tool_error"

ExecIdle ==
    /\ tool_calls = <<>>
    /\ approve_all = FALSE
    /\ execPc = "idle"
    /\ needs_permission = <<>>
    /\ auto_approved = <<>>
    /\ seqPhase = "idle"
    /\ results_with_permission = <<>>
    /\ autoPhase = <<>>
    /\ results_auto = <<>>
    /\ processed = <<>>
    /\ decisions = <<>>
    /\ tool_trace = <<>>

\* a ToolExecutor about to run execute_tools(tool_calls)
ExecInit ==
    /\ tool_calls \in {MakeCalls(k) : k \in CallBatches}
    /\ approve_all \in BOOLEAN
    /\ execPc = "partition"
    /\ needs_permission = <<>>
    /\ auto_approved = <<>>
    /\ seqPhase = "idle"
    /\ results_with_permission = <<>>
    /\ autoPhase = <<>>
    /\ results_auto = <<>>
    /\ processed = <<>>
    /\ decisions = [i \in 1..Len(tool_calls) |-> NoDecision]
    /\ tool_trace = [i \in 1..Len(tool_calls) |-> NoTrace]

ExecFrame == UNCHANGED <<memVars, todoVars, agentVars, extVars, tool_calls>>

\* execute_tools, lines 272-286: separate the calls by permission requirement
Partition ==
    /\ execPc = "partition"
    /\ needs_permission' = SelectIndexes(tool_calls, approve_all, TRUE, 1)
    /\ auto_approved' = SelectIndexes(tool_calls, approve_all, FALSE, 1)
    /\ autoPhase' = [k \in 1..Len(auto_approved') |-> "new"]
    /\ results_auto' = [k \in 1..Len(auto_approved') |-> NoResult]
    /\ execPc' = IF needs_permission' # <<>> THEN "sequential" ELSE "gather"
    /\ ExecFrame
    /\ UNCHANGED <<approve_all, seqPhase, results_with_permission, processed, decisions,
                   tool_trace>>

\* the needs-prompt call execute_tools is at
SeqIndex == needs_permission[Len(results_with_permission) + 1]

\* the sequential loop appends a result and goes on, or is through
SeqAppend(r) ==
    /\ results_with_permission' = Append(results_with_permission, r)
    /\ seqPhase' = "idle"
    /\ execPc' = IF Len(results_with_permission') = Len(needs_permission)
                 THEN "gather" ELSE "sequential"

Decide(i, d, answer) ==
    decisions' = [decisions EXCEPT ![i] =
                    [decision |-> d, flag |-> approve_all, answer |-> answer]]

\* execute_one of call i publishes the events evs, in this order
Published(i, evs) ==
    tool_trace' = [tool_trace EXCEPT ![i].events = @ \o evs]

\* execute_one of call i publishes evs and shows the permission prompt
PublishedAndPrompted(i, evs) ==
    tool_trace' = [tool_trace EXCEPT ![i].events = @ \o evs, ![i].prompted = TRUE]

\* execute_one of call i publishes evs and calls self.tools.execute
PublishedAndInvoked(i, evs) ==
    tool_trace' = [tool_trace EXCEPT ![i].events = @ \o evs, ![i].invoked = TRUE]

\* execute_one of call i publishes the event for the outcome of
\* self.tools.execute and calls _record_tool_execution(..., success, ...)
PublishedAndRecorded(i, outcome) ==
    tool_trace' = [tool_trace EXCEPT
        ![i].events = Append(@, ResultEvent(outcome)),
        ![i].recorded = IF outcome = "ok" THEN "success" ELSE "failure"]

\* execute_one of a needs-prompt call, up to its first suspension: parse,
\* _check_permission up to the prompt, _display_tool_args, handler invoked
SeqBegin ==
    /\ execPc = "sequential"
    /\ seqPhase = "idle"
    /\ LET i == SeqIndex
           call == tool_calls[i]
           gate == CheckPermission(call, approve_all)
       IN CASE ~Parses(call) ->
                 /\ SeqAppend(Message(call, "invalid_json"))
                 /\ Published(i, <<"tool_error">>)
                 /\ UNCHANGED decisions
            [] Parses(call) /\ gate = "deny" ->
                 /\ SeqAppend(Message(call, "denied"))
                 /\ Published(i, <<"tool_start", "tool_error">>)
                 /\ Decide(i, "deny", "none")
            [] Parses(call) /\ gate = "allow" /\ IsObject(call) ->
                 /\ seqPhase' = "running"
                 /\ PublishedAndInvoked(i, <<"tool_start">>)
                 /\ Decide(i, "allow", "none")
                 /\ UNCHANGED <<execPc, results_with_permission>>
            [] Parses(call) /\ gate = "allow" /\ ~IsObject(call) ->
                 \* _display_tool_args: args.items() raises, nothing catches it
                 /\ execPc' = "raised"
                 /\ Published(i, <<"tool_start">>)
                 /\ Decide(i, "allow", "none")
                 /\ UNCHANGED <<seqPhase, results_with_permission>>
            [] Parses(call) /\ gate = "ask" /\ IsObject(call) ->
                 /\ seqPhase' = "prompt"
                 /\ PublishedAndPrompted(i, <<"tool_start">>)
                 /\ UNCHANGED <<execPc, results_with_permission, decisions>>
            [] Parses(call) /\ gate = "ask" /\ ~IsObject(call) ->
                 \* _ask_user_permission: _truncate_args raises before the prompt
                 /\ execPc' = "raised"
                 /\ Published(i, <<"tool_start">>)
                 /\ UNCHANGED <<seqPhase, results_with_permission, decisions>>
    /\ ExecFrame
    /\ UNCHANGED <<approve_all, needs_permission, auto_approved, autoPhase,
                   results_auto, processed>>

\* _ask_user_permission returns with the user's choice
SeqAnswer ==
    /\ execPc = "sequential"
    /\ seqPhase = "prompt"
    /\ \E choice \in {"y", "n", "a"} :
         /\ Decide(SeqIndex, IF AnswerAllows(choice) THEN "allow" ELSE "deny", choice)
         /\ approve_all' = (approve_all \/ choice = "a")
         /\ IF AnswerAllows(choice)
            THEN /\ seqPhase' = "running"
                 /\ PublishedAndInvoked(SeqIndex, <<>>)
                 /\ UNCHANGED <<execPc, results_with_permission>>
            ELSE /\ SeqAppend(Message(tool_calls[SeqIndex], "denied"))
                 /\ Published(SeqIndex, <<"tool_error">>)
    /\ ExecFrame
    /\ UNCHANGED <<needs_permission, auto_approved, autoPhase, results_auto, processed>>

\* self.tools.execute returns for the needs-prompt call; execute_one returns
SeqFinish ==
    /\ execPc = "sequential"
    /\ seqPhase = "running"
    /\ \E outcome \in HandlerOutcomes(tool_calls[SeqIndex]) :
         /\ SeqAppend(Message(tool_calls[SeqIndex], outcome))
         /\ PublishedAndRecorded(SeqIndex, outcome)
    /\ ExecFrame
    /\ UNCHANGED <<approve_all, needs_permission, auto_approved, autoPhase,
                   results_auto, processed, decisions>>

\* execute_one of an auto-resolved call, up to its first suspension; gather
\* starts its tasks in the order of auto_approved
AutoStart ==
    /\ execPc = "gather"
    /\ \E k \in 1..Len(auto_approved) :
         /\ autoPhase[k] = "new"
         /\ \A j \in 1..(k - 1) : autoPhase[j] # "new"
         /\ LET i == auto_approved[k]
                call == tool_calls[i]
                gate == CheckPermission(call, approve_all)
            IN CASE ~Parses(call) ->
                      /\ results_auto' = [results_auto EXCEPT ![k] = Message(call, "invalid_json")]
                      /\ autoPhase' = [autoPhase EXCEPT ![k] = "done"]
                      /\ Published(i, <<"tool_error">>)
                      /\ UNCHANGED decisions
                 [] Parses(call) /\ gate = "deny" ->
                      /\ results_auto' = [results_auto EXCEPT ![k] = Message(call, "denied")]
                      /\ autoPhase' = [autoPhase EXCEPT ![k] = "done"]
                      /\ Published(i, <<"tool_start", "tool_error">>)
                      /\ Decide(i, "deny", "none")
                 [] Parses(call) /\ gate = "allow" /\ IsObject(call) ->
                      /\ autoPhase' = [autoPhase EXCEPT ![k] = "running"]
                      /\ PublishedAndInvoked(i, <<"tool_start">>)
                      /\ Decide(i, "allow", "none")
                      /\ UNCHANGED results_auto
                 [] Parses(call) /\ gate = "allow" /\ ~IsObject(call) ->
                      \* _display_tool_args raises; gather returns the exception
                      /\ results_auto' = [results_auto EXCEPT ![k] = Exception]
                      /\ autoPhase' = [autoPhase EXCEPT ![k] = "done"]
                      /\ Published(i, <<"tool_start">>)
                      /\ Decide(i, "allow", "none")
                 [] Parses(call) /\ gate = "ask" ->
                      /\ autoPhase' = [autoPhase EXCEPT ![k] = "prompt"]
                      /\ PublishedAndPrompted(i, <<"tool_start">>)
                      /\ UNCHANGED <<results_auto, decisions>>
    /\ ExecFrame
    /\ UNCHANGED <<approve_all, execPc, needs_permission, auto_approved, seqPhase,
                   results_with_permission, processed>>

\* self.tools.execute returns for an auto-resolved call, in any order
AutoFinish ==
    /\ execPc = "gather"
    /\ \E k \in 1..Len(auto_approved) :
         /\ autoPhase[k] = "running"
         /\ \E outcome \in HandlerOutcomes(tool_calls[auto_approved[k]]) :
              /\ results_auto' = [results_auto EXCEPT ![k] =
                                     Message(tool_calls[auto_approved[k]], outcome)]
              /\ PublishedAndRecorded(auto_approved[k], outcome)
         /\ autoPhase' = [autoPhase EXCEPT ![k] = "done"]
    /\ ExecFrame
    /\ UNCHANGED <<approve_all, execPc, needs_permission, auto_approved, seqPhase,
                   results_with_permission, processed, decisions>>

\* execute_tools, lines 324-341: combine, process, return
Return ==
    /\ execPc = "gather"
    /\ \A k \in 1..Len(auto_approved) : autoPhase[k] = "done"
    /\ processed' = ProcessResults(results_with_permission \o results_auto, tool_calls)
    /\ execPc' = "done"
    /\ ExecFrame
    /\ UNCHANGED <<approve_all, needs_permission, auto_approved, seqPhase,
                   results_with_permission, autoPhase, results_auto, decisions, tool_trace>>

-----------------------------------------------------------------------------
(* EventBus, AgentStateManager and Agent.run of an agent with a session id. *)
(* The events of the tool executor are left out of the history.             *)

max_history == 100

AgentEvent(type, agentState, message, status, turns) ==
    [event_type |-> type, agent_state |-> agentState, message |-> message,
     status |-> status, turns |-> turns]

\* the event update_state(state, action) hands to asyncio.create_task
StateEvent(agentState, message) ==
    AgentEvent("agent_state_change", agentState, message, "none", 0)

StartEvent == AgentEvent("agent_start", "none", "none", "none", 0)

DoneEvent(status, turns) == AgentEvent("agent_done", "none", "none", status, turns)

\* the positions of the events of a type in a list of events
Positions(seq, type) == {i \in 1..Len(seq) : seq[i].event_type = type}

\* a history that is never trimmed
PublishUntrimmed(h, ev) == Append(h, ev)

\* EventBus.publish: the history of the session after the event
Publish(h, ev) ==
    LET a == Append(h, ev) IN
    IF Len(a) > max_history THEN SubSeq(a, Len(a) - max_history + 1, Len(a)) ELSE a

RECURSIVE PublishAll(_, _)
PublishAll(h, evs) ==
    IF evs = <<>> THEN h ELSE PublishAll(Publish(h, Head(evs)), Tail(evs))

\* EventBus.publish of evs in turn: history and the subscriber's queue
BusPublish(evs) ==
    /\ event_history' = PublishAll(event_history, evs)
    /\ queue' = IF subPc = "listening" THEN queue \o evs ELSE queue

ProviderCall == [op |-> "provider", msg |-> NoMessage]

AddEntry(m) == [op |-> "add", msg |-> m]

\* self.memory.add(m)
AgentAdd(mem, m) ==
    MemoryAdd(mem, m, memory_config.max_tokens, memory_config.max_messages)

RECURSIVE AgentAddAll(_, _)
AgentAddAll(mem, msgs) ==
    IF msgs = <<>> THEN mem ELSE AgentAddAll(AgentAdd(mem, Head(msgs)), Tail(msgs))

ResultMessagesNone(results) == <<>>

\* for result in results: the messages handed to memory.add, in order
ResultMessages(results) ==
    [i \in 1..Len(results) |-> ToolMsg(results[i].tool_call_id, 1)]

LoopContinuesOnceMore(done, maxTurns) == done < maxTurns + 1

\* for turn in range(max_turns): another iteration after done iterations
LoopContinues(done, maxTurns) == done < maxTurns

UserMessage == TextMsg("user", 1)

FinalMessage == TextMsg("assistant", 1)

\* what an agent's provider answers: a final text, tool calls, or it raises
AgentCallKinds ==
    {k \in CallKinds : k.tool \in {"read_file", "bash"} /\ k.args = "plain"}

\* batches with a call whose arguments are no valid JSON: alone, before a
\* call that is prompted for, after an auto-resolved call, and before a call
\* whose arguments are no JSON object
MalformedBatches ==
    LET bad == [tool |-> "bash", args |-> "malformed"] IN
    {<<bad>>,
     <<bad, [tool |-> "bash", args |-> "plain"]>>,
     <<[tool |-> "read_file", args |-> "plain"], bad>>,
     <<bad, [tool |-> "bash", args |-> "nonobject"]>>}

\* one call, two calls, one call whose arguments are no JSON object, or a
\* batch with a call whose arguments are no valid JSON
AgentBatches ==
    {<<k>> : k \in AgentCallKinds}
    \cup {<<j, k>> : j \in AgentCallKinds, k \in AgentCallKinds}
    \cup {<<[tool |-> "bash", args |-> "nonobject"]>>}
    \cup MalformedBatches

Responses ==
    {[kind |-> "text", calls |-> <<>>], [kind |-> "raise", calls |-> <<>>]}
    \cup {[kind |-> "calls", calls |-> k] : k \in AgentBatches}

\* the number of tool calls in the assistant messages of a log
RECURSIVE CallsIssued(_)
CallsIssued(log) ==
    IF log = <<>> THEN 0 ELSE Len(Head(log).msg.calls) + CallsIssued(Tail(log))

\* the first tool-call id the provider uses in the current turn: a fresh one
NextCallId == CallsIssued(addLog) + 1

\* more than any run of the model puts into the window
AmpleTokens == 2 + MaxTurns * (2 + 2 * 2)

AgentIdle ==
    /\ agentPc = "unused"
    /\ current_turn = 0
    /\ max_turns = 0
    /\ state = "idle"
    /\ pending_tasks = <<>>
    /\ yielded = FALSE
    /\ event_history = <<>>
    /\ subPc = "none"
    /\ queue = <<>>
    /\ received = <<>>
    /\ memory = [messages |-> <<>>, system_prompt |-> NoMessage]
    /\ memory_config = [max_tokens |-> AmpleTokens, max_messages |-> 0]
    /\ addLog = <<>>
    /\ response = "none"
    /\ result = "none"

\* an agent the host has built, with the system prompt set, before run
AgentInit ==
    /\ agentPc = "idle"
    /\ current_turn = 0
    /\ max_turns \in 0..MaxTurns
    /\ state = "idle"
    /\ pending_tasks = <<>>
    /\ yielded = FALSE
    /\ event_history = <<>>
    /\ subPc = "none"
    /\ queue = <<>>
    /\ received = <<>>
    /\ memory = [messages |-> <<>>, system_prompt |-> TextMsg("system", 1)]
    /\ memory_config \in {[max_tokens |-> AmpleTokens, max_messages |-> n] : n \in {0, 2}}
    /\ addLog = <<>>
    /\ response = "none"
    /\ result = "none"

AgentFrame == UNCHANGED <<memVars, todoVars, extVars, max_turns, memory_config, subPc, received>>

\* the head of the turn loop after done iterations, and the exit after the
\* last one; first holds the events run publishes itself before it
LoopHead(done, log, first, tasks) ==
    IF LoopContinues(done, max_turns)
    THEN /\ current_turn' = done + 1
         /\ state' = "thinking"
         /\ pending_tasks' = tasks \o <<StateEvent("thinking", "Turn")>>
         /\ BusPublish(first)
         /\ addLog' = Append(log, ProviderCall)
         /\ agentPc' = "completion"
         /\ UNCHANGED result
    ELSE /\ state' = "failed"
         /\ pending_tasks' = tasks \o <<StateEvent("failed", "Max turns exceeded")>>
         /\ BusPublish(first \o <<DoneEvent("max_turns", max_turns)>>)
         /\ addLog' = log
         /\ agentPc' = "returned"
         /\ result' = "Max turns exceeded"
         /\ UNCHANGED current_turn

\* Agent.run from its call to the first await of _get_completion
RunStart ==
    /\ agentPc = "idle"
    /\ memory' = AgentAdd(memory, UserMessage)
    /\ LoopHead(0, <<AddEntry(UserMessage)>>, <<StartEvent>>,
                pending_tasks \o <<StateEvent("thinking", "Processing user input")>>)
    /\ yielded' = FALSE
    /\ AgentFrame
    /\ UNCHANGED <<execVars, response>>

\* the except branch of Agent.run: publish agent_done, re-raise
ExceptBranch ==
    /\ BusPublish(<<DoneEvent("error", 0)>>)
    /\ agentPc' = "raised"
    /\ UNCHANGED <<state, pending_tasks, memory, addLog, current_turn, result>>

\* execute_tools is called with the tool calls of the response
ExecStart(calls) ==
    /\ tool_calls' = calls
    /\ execPc' = "partition"
    /\ needs_permission' = <<>>
    /\ auto_approved' = <<>>
    /\ seqPhase' = "idle"
    /\ results_with_permission' = <<>>
    /\ autoPhase' = <<>>
    /\ results_auto' = <<>>
    /\ processed' = <<>>
    /\ decisions' = [i \in 1..Len(calls) |-> NoDecision]
    /\ tool_trace' = [i \in 1..Len(calls) |-> NoTrace]
    /\ UNCHANGED approve_all

\* _get_completion returns or raises; Agent.run goes on to its next await
CompletionReturns ==
    /\ agentPc = "completion"
    /\ \E resp \in Responses :
         /\ response' = resp.kind
         /\ CASE resp.kind = "raise" ->
                   /\ ExceptBranch
                   /\ UNCHANGED execVars
              [] resp.kind = "text" ->
                   /\ memory' = AgentAdd(memory, FinalMessage)
                   /\ addLog' = Append(addLog, AddEntry(FinalMessage))
                   /\ state' = "completed"
                   /\ pending_tasks' = Append(pending_tasks, StateEvent("completed", "none"))
                   /\ BusPublish(<<DoneEvent("completed", current_turn)>>)
                   /\ agentPc' = "returned"
                   /\ result' = "final_response"
                   /\ UNCHANGED <<execVars, current_turn>>
              [] resp.kind = "calls" ->
                   LET m == CallsMsg(0, NextCallId, Len(resp.calls), 1) IN
                   /\ memory' = AgentAdd(memory, m)
                   /\ addLog' = Append(addLog, AddEntry(m))
                   /\ state' = "executing"
                   /\ pending_tasks' = Append(pending_tasks, StateEvent("executing", "tools"))
                   /\ ExecStart(MakeCallsFrom(resp.calls, NextCallId))
                   /\ agentPc' = "executing"
                   /\ UNCHANGED <<event_history, queue, current_turn, result>>
    /\ yielded' = FALSE
    /\ AgentFrame

\* execute_tools has returned: add the results, go to the next turn or leave
ToolsReturned ==
    /\ agentPc = "executing"
    /\ execPc = "done"
    /\ memory' = AgentAddAll(memory, ResultMessages(processed))
    /\ LoopHead(current_turn,
                addLog \o [i \in 1..Len(ResultMessages(processed)) |->
                              AddEntry(ResultMessages(processed)[i])],
                <<>>, pending_tasks)
    /\ yielded' = FALSE
    /\ AgentFrame
    /\ UNCHANGED <<execVars, response>>

\* execute_tools has raised
ToolsRaised ==
    /\ agentPc = "executing"
    /\ execPc = "raised"
    /\ ExceptBranch
    /\ yielded' = FALSE
    /\ AgentFrame
    /\ UNCHANGED <<execVars, response>>

\* Agent.run is at an await that can suspend it, or is over
AtAwait ==
    \/ agentPc \in {"completion", "returned", "raised"}
    \/ /\ agentPc = "executing"
       /\ \/ execPc = "sequential" /\ seqPhase \in {"prompt", "running"}
          \/ execPc = "gather" /\ auto_approved # <<>>

\* the event loop gets control: the tasks of update_state run, in order
Yield ==
    /\ AtAwait
    /\ ~yielded
    /\ yielded' = TRUE
    /\ BusPublish(pending_tasks)
    /\ pending_tasks' = <<>>
    /\ AgentFrame
    /\ UNCHANGED <<execVars, agentPc, current_turn, state, memory, addLog, response, result>>

\* another task runs only while Agent.run is not running
SubscriberRuns == agentPc = "idle" \/ yielded

\* EventBus.subscribe up to its first queue.get: register, replay the history
Subscribe ==
    /\ SubscriberRuns
    /\ subPc = "none"
    /\ subPc' = "listening"
    /\ queue' = event_history
    /\ UNCHANGED <<memVars, todoVars, execVars, extVars, agentPc, current_turn, max_turns, state,
                   pending_tasks, yielded, event_history, received, memory, memory_config,
                   addLog, response, result>>

\* the events of q the stream yields: up to the first agent_done
RECURSIVE UntilDone(_)
UntilDone(q) ==
    IF q = <<>> THEN <<>>
    ELSE IF Head(q).event_type = "agent_done" THEN <<Head(q)>>
    ELSE <<Head(q)>> \o UntilDone(Tail(q))

\* EventBus.subscribe, the loop: the queued events are taken and yielded
\* until the queue is empty; agent_done ends the stream and drops the queue
Receive ==
    /\ SubscriberRuns
    /\ subPc = "listening"
    /\ queue # <<>>
    /\ received' = received \o UntilDone(queue)
    /\ queue' = <<>>
    /\ subPc' = IF Positions(queue, "agent_done") # {} THEN "ended" ELSE subPc
    /\ UNCHANGED <<memVars, todoVars, execVars, extVars, agentPc, current_turn, max_turns, state,
                   pending_tasks, yielded, event_history, memory, memory_config,
                   addLog, response, result>>

-----------------------------------------------------------------------------
(* Delegation: the sub_agent tool                                          *)
(* (src/src/capybara/tools/builtin/delegation/, tools/registry.py)         *)

\* parent_session_id = None
NoSession == -1

\* the session of the interactive agent
RootSession == 0

\* one entry of a ToolRegistry: the tool's name, its ToolRestriction (the empty
\* set when it has none) and the parent session its handler is bound to
ToolEntry(name, modes, parent) ==
    [name |-> name, allowed_modes |-> modes, parent_session_id |-> parent]

RegisterSubAgentTool(parent) == {ToolEntry("sub_agent", {"parent"}, parent)}

RegisterBuiltinTools(parent) ==
    {ToolEntry("read_file", {}, NoSession), ToolEntry("bash", {}, NoSession),
     ToolEntry("grep", {}, NoSession), ToolEntry("todo", {"parent"}, NoSession)}
    \cup (IF parent # NoSession THEN RegisterSubAgentTool(parent) ELSE {})

\* a filter that keeps every tool
FilterNone(registry, mode) == registry

FilterByMode(registry, mode) ==
    {t \in registry : t.allowed_modes = {} \/ mode \in t.allowed_modes}

ToolNames(registry) == {t.name : t \in registry}

\* Agent.__init__: self.tools = tools.filter_by_mode(config.mode)
AgentTools(registry, mode) == FilterByMode(registry, mode)

\* create_sub_agent: the tools of the child agent
CreateSubAgent == AgentTools(RegisterBuiltinTools(NoSession), "child")

\* the interactive agent: the builtin tools, then the sub_agent tool bound to
\* the agent's own session, filtered by the agent's mode
RootTools ==
    AgentTools(RegisterBuiltinTools(NoSession) \cup RegisterSubAgentTool(RootSession),
               "parent")

\* Agent.__init__: parent agents get a flow renderer
HasFlowRenderer(a) == sessions[a].agent_mode = "parent"

\* SessionManager.create_child_session: the row storage.create_session writes
ChildSessionRow(parent) == [parent_id |-> parent, agent_mode |-> "child"]

\* list.remove(x) that removes nothing
ListKeep(list, x) == list

\* list.remove(x): drops the first occurrence of x
ListRemove(list, x) ==
    LET i == CHOOSE k \in 1..Len(list) :
                 list[k] = x /\ \A j \in 1..(k - 1) : list[j] # x
    IN  SubSeq(list, 1, i - 1) \o SubSeq(list, i + 1, Len(list))

InList(list, x) == \E k \in 1..Len(list) : list[k] = x

\* what a tool handler hands to ToolRegistry.execute: a value or an exception
Returned(value) == [raised |-> FALSE, value |-> value]

Raised(exception) == [raised |-> TRUE, value |-> exception]

\* generate_work_report
WorkReport == [kind |-> "work_report", detail |-> "completed"]

\* ChildFailure.to_context_string()
ChildFailure(category) == [kind |-> "child_failure", detail |-> category]

\* ToolRegistry.execute: "Error: ..." for an unknown tool and for a raising handler
RegistryError(detail) == [kind |-> "error", detail |-> detail]

RegistryExecute(outcome) ==
    IF outcome.raised THEN RegistryError(outcome.value) ELSE outcome.value

\* an except clause that lets the exception go on
ExceptionReRaised(exception) == Raised(exception)

\* except Exception: return await handle_exception_error(...)
HandleExceptionOutcome(exception) == Returned(ChildFailure("exception"))

\* except asyncio.TimeoutError: return await handle_timeout_error(...)
HandleTimeoutOutcome == Returned(ChildFailure("timeout"))

\* storage.log_session_event(session_id, event_type, metadata)
LogSessionEvent(log, parent, type, child) == log \cup {<<parent, type, child>>}

ToolResult(name, child, r) == [name |-> name, child |-> child, result |-> r]

\* the agent of session a is running its turn loop
Live(a) ==
    \/ a = RootSession
    \/ a \in 1..Len(delegations) /\ delegations[a].pc = "running"

DelegInit ==
    /\ sessions = (RootSession :> [parent_id |-> NoSession, agent_mode |-> "parent"])
    /\ agent_tools = (RootSession :> RootTools)
    /\ child_sessions = (RootSession :> <<>>)
    /\ status_state = (RootSession :> "idle")
    /\ delegations = <<>>
    /\ tool_results = (RootSession :> {})
    /\ session_events = {}

DelegFrame ==
    UNCHANGED <<memVars, todoVars, execVars, agentVars, busVars, regVars, loopVars, statusVars,
                analysisVars, moreVars>>

\* an agent calls sub_agent: execute_sub_agent up to the gather it waits for.
\* Storage is strict for session creation (create_session may raise, before the
\* try block) and best-effort for event logging (log_session_event does not).
Delegate ==
    \E a \in DOMAIN sessions, created \in BOOLEAN :
        /\ Live(a)
        /\ Len(delegations) < MaxChildren
        /\ \E t \in agent_tools[a] :
            /\ t.name = "sub_agent"
            /\ LET parent == t.parent_session_id
                   child  == Len(delegations) + 1
               IN  IF ~created
                   THEN /\ tool_results' = [tool_results EXCEPT ![a] =
                               @ \cup {ToolResult("sub_agent", NoSession,
                                          RegistryExecute(Raised("create_session")))}]
                        /\ UNCHANGED <<sessions, agent_tools, child_sessions,
                                       status_state, delegations, session_events>>
                   ELSE /\ sessions' = sessions @@ (child :> ChildSessionRow(parent))
                        /\ agent_tools' = agent_tools @@ (child :> CreateSubAgent)
                        /\ tool_results' = tool_results @@ (child :> {})
                        /\ IF HasFlowRenderer(parent)
                           THEN /\ status_state' =
                                      [status_state EXCEPT ![parent] = "waiting_for_child"]
                                      @@ (child :> "idle")
                                /\ child_sessions' =
                                      [child_sessions EXCEPT ![parent] = Append(@, child)]
                                      @@ (child :> <<>>)
                           ELSE /\ status_state' = status_state @@ (child :> "idle")
                                /\ child_sessions' = child_sessions @@ (child :> <<>>)
                        /\ session_events' =
                              LogSessionEvent(session_events, parent, "delegation_start", child)
                        /\ delegations' = Append(delegations,
                              [caller |-> a, parent |-> parent, pc |-> "running",
                               cause |-> "none", result |-> NoResult])
    /\ DelegFrame

\* the tools a child's model may call
ChildCallNames == {"sub_agent", "todo"}

\* a running child calls a tool through its registry (sub_agent, when the
\* registry holds it, is the Delegate action)
ChildCall ==
    \E c \in 1..Len(delegations), name \in ChildCallNames :
        /\ delegations[c].pc = "running"
        /\ name \in ToolNames(agent_tools[c]) => name # "sub_agent"
        /\ tool_results' = [tool_results EXCEPT ![c] = @ \cup
              {ToolResult(name, NoSession,
                   IF name \in ToolNames(agent_tools[c])
                   THEN [kind |-> "ok", detail |-> name]
                   ELSE RegistryError("Unknown tool"))}]
        /\ UNCHANGED <<sessions, agent_tools, child_sessions, status_state,
                       delegations, session_events>>
    /\ DelegFrame

\* how wait_for(gather(child_agent.run, display_sub_agent_progress)) can end
GatherOutcomes == {"completed", "timeout", "child_raised", "renderer_raised"}

GatherEnds ==
    \E c \in 1..Len(delegations), outcome \in GatherOutcomes :
        /\ delegations[c].pc = "running"
        /\ delegations' = [delegations EXCEPT
              ![c].pc = CASE outcome = "completed" -> "handle_success"
                          [] outcome = "timeout"   -> "handle_timeout"
                          [] OTHER                 -> "handle_exception",
              ![c].cause = IF outcome = "completed" THEN "none" ELSE outcome]
        /\ UNCHANGED <<sessions, agent_tools, child_sessions, status_state,
                       tool_results, session_events>>
    /\ DelegFrame

\* the delegation's handler returns: ToolRegistry.execute hands the result to
\* the turn of the calling agent
Deliver(c, outcome) ==
    /\ delegations' = [delegations EXCEPT ![c].pc = "returned",
                                          ![c].result = RegistryExecute(outcome)]
    /\ tool_results' = [tool_results EXCEPT ![delegations[c].caller] =
          @ \cup {ToolResult("sub_agent", c, RegistryExecute(outcome))}]

\* where handle_success can raise
SuccessFaults == {"none", "save_message", "generate_work_report"}

\* handle_success, inside the try block of execute_sub_agent
HandleSuccess ==
    \E c \in 1..Len(delegations), fault \in SuccessFaults :
        LET parent == delegations[c].parent
            removes == HasFlowRenderer(parent) /\ fault # "save_message"
            missing == removes /\ ~InList(child_sessions[parent], c)
        IN  /\ delegations[c].pc = "handle_success"
            /\ IF removes /\ ~missing
               THEN /\ child_sessions' = [child_sessions EXCEPT ![parent] = ListRemove(@, c)]
                    /\ status_state' = [status_state EXCEPT ![parent] = "executing_tools"]
               ELSE UNCHANGED <<child_sessions, status_state>>
            /\ IF fault = "save_message" \/ missing
               THEN /\ delegations' = [delegations EXCEPT ![c].pc = "handle_exception",
                                                          ![c].cause = "success_raised"]
                    /\ UNCHANGED <<tool_results, session_events>>
               ELSE /\ session_events' =
                          LogSessionEvent(session_events, parent, "delegation_complete", c)
                    /\ IF fault = "generate_work_report"
                       THEN /\ delegations' = [delegations EXCEPT
                                  ![c].pc = "handle_exception",
                                  ![c].cause = "success_raised"]
                            /\ UNCHANGED tool_results
                       ELSE Deliver(c, Returned(WorkReport))
            /\ UNCHANGED <<sessions, agent_tools>>
    /\ DelegFrame

\* the error handlers' "if child_session_id in child_sessions: remove"
RemoveIfPresent(parent, c) ==
    IF HasFlowRenderer(parent) /\ InList(child_sessions[parent], c)
    THEN child_sessions' = [child_sessions EXCEPT ![parent] = ListRemove(@, c)]
    ELSE UNCHANGED child_sessions

\* handle_timeout_error
HandleTimeout ==
    \E c \in 1..Len(delegations) :
        /\ delegations[c].pc = "handle_timeout"
        /\ RemoveIfPresent(delegations[c].parent, c)
        /\ session_events' = LogSessionEvent(session_events, delegations[c].parent,
                                             "delegation_timeout", c)
        /\ Deliver(c, HandleTimeoutOutcome)
        /\ UNCHANGED <<sessions, agent_tools, status_state>>
    /\ DelegFrame

\* handle_exception_error
HandleException ==
    \E c \in 1..Len(delegations) :
        /\ delegations[c].pc = "handle_exception"
        /\ RemoveIfPresent(delegations[c].parent, c)
        /\ session_events' = LogSessionEvent(session_events, delegations[c].parent,
                                             "delegation_error", c)
        /\ Deliver(c, HandleExceptionOutcome(delegations[c].cause))
        /\ UNCHANGED <<sessions, agent_tools, status_state>>
    /\ DelegFrame

-----------------------------------------------------------------------------
(* EventBus with several sessions and subscribers                          *)
(* (src/src/capybara/core/event_bus.py)                                    *)

Sessions == {"s1", "s2"}

\* the events published: all for session s1, from which the subscribers of
\* session s2 are to be kept apart
EventChoices == {<<"s1", "tool_start">>, <<"s1", "agent_done">>}

Subscribers == 1..MaxBusCalls

\* the publish and subscribe calls made so far
BusCalls == published + Cardinality({k \in Subscribers : sub_pc[k] # "new"})

\* Event(session_id, event_type); seq is the event's place in the order of
\* all publish calls (the identity of the Event object)
BusEvent(session, type, seq) == [session_id |-> session, event_type |-> type, seq |-> seq]

\* size of the history that session s1 holds at the start: a full one
Prefills == {max_history}

PrefillHistory(n) == [i \in 1..n |-> BusEvent("s1", "tool_start", i)]

\* publish's loop over self._subscribers[session_id] that reaches only the
\* first queue
PutFirst(queues, subs, ev) ==
    [k \in DOMAIN queues |->
        IF subs # <<>> /\ k = Head(subs) THEN Append(queues[k], ev) ELSE queues[k]]

\* publish: "for queue in self._subscribers[session_id]: await queue.put(event)"
PutAll(queues, subs, ev) ==
    [k \in DOMAIN queues |-> IF InList(subs, k) THEN Append(queues[k], ev) ELSE queues[k]]

\* subscribe: "for event in self._history[session_id]: await queue.put(event)"
Replay(history) == history

\* the subscriber's queue is in self._subscribers[its session]
QueueRegistered(k) == sub_pc[k] # "new" /\ InList(bus_subscribers[sub_session[k]], k)

BusInit ==
    /\ \E n \in Prefills :
          /\ publish_log = PrefillHistory(n)
          /\ bus_history = [s \in Sessions |-> IF s = "s1" THEN PrefillHistory(n) ELSE <<>>]
    /\ bus_subscribers = [s \in Sessions |-> <<>>]
    /\ cleared_at = [s \in Sessions |-> 0]
    /\ published = 0
    /\ sub_pc = [k \in Subscribers |-> "new"]
    /\ sub_session = [k \in Subscribers |-> "s1"]
    /\ sub_queue = [k \in Subscribers |-> <<>>]
    /\ sub_yielded = [k \in Subscribers |-> <<>>]
    /\ sub_from = [k \in Subscribers |-> 0]
    /\ sub_cleared = [k \in Subscribers |-> 0]
    /\ sub_until = [k \in Subscribers |-> 0]

\* a bus nobody uses
BusIdle ==
    /\ publish_log = <<>>
    /\ bus_history = [s \in Sessions |-> <<>>]
    /\ bus_subscribers = [s \in Sessions |-> <<>>]
    /\ cleared_at = [s \in Sessions |-> 0]
    /\ published = 0
    /\ sub_pc = [k \in Subscribers |-> "new"]
    /\ sub_session = [k \in Subscribers |-> "s1"]
    /\ sub_queue = [k \in Subscribers |-> <<>>]
    /\ sub_yielded = [k \in Subscribers |-> <<>>]
    /\ sub_from = [k \in Subscribers |-> 0]
    /\ sub_cleared = [k \in Subscribers |-> 0]
    /\ sub_until = [k \in Subscribers |-> 0]

BusFrame ==
    UNCHANGED <<memVars, todoVars, execVars, agentVars, delegVars, regVars, loopVars, statusVars,
                analysisVars, moreVars>>

\* EventBus.publish(event): asyncio.Queue() is unbounded, so no put suspends
\* and the whole call runs without another task in between
BusPublishEvent ==
    \E choice \in EventChoices :
        LET s == choice[1]
            ev == BusEvent(s, choice[2], Len(publish_log) + 1)
        IN
        /\ BusCalls < MaxBusCalls
        /\ published' = published + 1
        /\ publish_log' = Append(publish_log, ev)
        /\ bus_history' = [bus_history EXCEPT ![s] = Publish(@, ev)]
        /\ sub_queue' = PutAll(sub_queue, bus_subscribers[s], ev)
        /\ UNCHANGED <<bus_subscribers, cleared_at, sub_pc, sub_session, sub_yielded,
                       sub_from, sub_cleared, sub_until>>
    /\ BusFrame

\* EventBus.subscribe(session_id) up to its first queue.get: a new queue is
\* registered and the session's history replayed into it
BusSubscribe ==
    \E k \in Subscribers, s \in Sessions :
        /\ BusCalls < MaxBusCalls
        /\ sub_pc[k] = "new"
        /\ \A j \in 1..(k - 1) : sub_pc[j] # "new"
        /\ sub_pc' = [sub_pc EXCEPT ![k] = "listening"]
        /\ sub_session' = [sub_session EXCEPT ![k] = s]
        /\ bus_subscribers' = [bus_subscribers EXCEPT ![s] = Append(@, k)]
        /\ sub_queue' = [sub_queue EXCEPT ![k] = Replay(bus_history[s])]
        /\ sub_from' = [sub_from EXCEPT ![k] = Len(publish_log)]
        /\ sub_cleared' = [sub_cleared EXCEPT ![k] = cleared_at[s]]
        /\ UNCHANGED <<publish_log, bus_history, cleared_at, published, sub_yielded,
                       sub_until>>
    /\ BusFrame

\* the events of queue q that the loop of subscribe yields: all of them up to
\* and including the first agent_done
StreamYields(q) ==
    IF Positions(q, "agent_done") = {} THEN q
    ELSE SubSeq(q, 1, CHOOSE i \in Positions(q, "agent_done") :
                          \A j \in Positions(q, "agent_done") : i <= j)

\* the loop of subscribe: the queued events are taken and yielded, up to an
\* agent_done, at whose yield the generator is suspended
BusReceive ==
    \E k \in Subscribers :
        /\ sub_pc[k] = "listening"
        /\ sub_queue[k] # <<>>
        /\ sub_yielded' = [sub_yielded EXCEPT ![k] = @ \o StreamYields(sub_queue[k])]
        /\ sub_queue' = [sub_queue EXCEPT ![k] =
              SubSeq(@, Len(StreamYields(@)) + 1, Len(@))]
        /\ sub_pc' = [sub_pc EXCEPT ![k] =
              IF Positions(sub_queue[k], "agent_done") # {} THEN "at_done" ELSE @]
        /\ UNCHANGED <<publish_log, bus_history, bus_subscribers, cleared_at, published,
                       sub_session, sub_from, sub_cleared, sub_until>>
    /\ BusFrame

\* the generator is resumed after it yielded agent_done: break, then the
\* finally block; list.remove raises ValueError for a queue that is not in
\* the session's list
BusFinish ==
    \E k \in Subscribers :
        LET s == sub_session[k] IN
        /\ sub_pc[k] = "at_done"
        /\ IF bus_subscribers[s] = <<>>
           THEN /\ sub_pc' = [sub_pc EXCEPT ![k] = "ended"]
                /\ UNCHANGED <<bus_subscribers, sub_until>>
           ELSE IF InList(bus_subscribers[s], k)
           THEN /\ sub_pc' = [sub_pc EXCEPT ![k] = "ended"]
                /\ bus_subscribers' = [bus_subscribers EXCEPT ![s] = ListRemove(@, k)]
                /\ sub_until' = [sub_until EXCEPT ![k] = Len(publish_log)]
           ELSE /\ sub_pc' = [sub_pc EXCEPT ![k] = "raised"]
                /\ UNCHANGED <<bus_subscribers, sub_until>>
        /\ UNCHANGED <<publish_log, bus_history, cleared_at, published, sub_session,
                       sub_queue, sub_yielded, sub_from, sub_cleared>>
    /\ BusFrame

\* EventBus.cleanup_session(session_id)
CleanupSession ==
    \E s \in Sessions :
        /\ bus_subscribers[s] # <<>> \/ bus_history[s] # <<>>
        /\ bus_subscribers' = [bus_subscribers EXCEPT ![s] = <<>>]
        /\ bus_history' = [bus_history EXCEPT ![s] = <<>>]
        /\ cleared_at' = [cleared_at EXCEPT ![s] = Len(publish_log)]
        /\ sub_until' = [k \in Subscribers |->
              IF InList(bus_subscribers[s], k) THEN Len(publish_log) ELSE sub_until[k]]
        /\ UNCHANGED <<publish_log, published, sub_pc, sub_session, sub_queue,
                       sub_yielded, sub_from, sub_cleared>>
    /\ BusFrame

-----------------------------------------------------------------------------
(* ToolRegistry.  _tools is a dict: a list of [name, handler] in insertion *)
(* order with one entry per name; _schemas is a list of [name, rev], rev   *)
(* standing for the description and parameters given at the registration;  *)
(* _restrictions maps a name to the allowed modes of its ToolRestriction.  *)

AgentModes == {"parent", "child"}

EmptyRegistry == [tools |-> <<>>, schemas |-> <<>>, restrictions |-> <<>>]

\* name in self._tools
HasTool(reg, name) == \E i \in 1..Len(reg.tools) : reg.tools[i].name = name

ToolIndex(reg, name) == CHOOSE i \in 1..Len(reg.tools) : reg.tools[i].name = name

RegistryNames(reg) == {reg.tools[i].name : i \in 1..Len(reg.tools)}

\* self._tools[name] = func
SetTool(tools, name, handler) ==
    IF \E i \in 1..Len(tools) : tools[i].name = name
    THEN [i \in 1..Len(tools) |->
            IF tools[i].name = name THEN [name |-> name, handler |-> handler]
            ELSE tools[i]]
    ELSE Append(tools, [name |-> name, handler |-> handler])

\* registry.tool(name, description, parameters, allowed_modes)(func)
RegistryTool(reg, name, rev, modes) ==
    [tools |-> SetTool(reg.tools, name, rev),
     schemas |-> Append(reg.schemas, [name |-> name, rev |-> rev]),
     restrictions |-> IF modes # {} THEN (name :> modes) @@ reg.restrictions
                      ELSE reg.restrictions]

\* registry.unregister(name)
RegistryUnregister(reg, name) ==
    IF HasTool(reg, name)
    THEN [tools |-> SelectSeq(reg.tools, LAMBDA t : t.name # name),
          schemas |-> SelectSeq(reg.schemas, LAMBDA s : s.name # name),
          restrictions |-> reg.restrictions]
    ELSE reg

\* a filter that keeps the restricted tools only
ModeListed(reg, name, mode) ==
    name \in DOMAIN reg.restrictions /\ mode \in reg.restrictions[name]

\* filter_by_mode: not restriction or mode in restriction.allowed_modes
ModeAllows(reg, name, mode) ==
    name \notin DOMAIN reg.restrictions \/ mode \in reg.restrictions[name]

\* next(s for s in self._schemas if s["function"]["name"] == name)
FirstSchema(reg, name) ==
    reg.schemas[CHOOSE i \in 1..Len(reg.schemas) :
                    /\ reg.schemas[i].name = name
                    /\ \A j \in 1..(i - 1) : reg.schemas[j].name # name]

\* registry.filter_by_mode(mode): the registry returned
RegistryFilterByMode(reg, mode) ==
    LET kept == SelectSeq(reg.tools, LAMBDA t : ModeAllows(reg, t.name, mode))
        names == {kept[i].name : i \in 1..Len(kept)}
    IN [tools |-> kept,
        schemas |-> [i \in 1..Len(kept) |-> FirstSchema(reg, kept[i].name)],
        restrictions |-> [n \in names \cap DOMAIN reg.restrictions |-> reg.restrictions[n]]]

\* for name, func in other._tools.items(): if name not in self._tools
RECURSIVE MergeTools(_, _)
MergeTools(tools, others) ==
    IF others = <<>> THEN tools
    ELSE MergeTools(IF \E i \in 1..Len(tools) : tools[i].name = Head(others).name
                    THEN tools ELSE Append(tools, Head(others)),
                    Tail(others))

\* for schema in other._schemas: if schema not in self._schemas
RECURSIVE MergeSchemas(_, _)
MergeSchemas(schemas, others) ==
    IF others = <<>> THEN schemas
    ELSE MergeSchemas(IF \E i \in 1..Len(schemas) : schemas[i] = Head(others)
                      THEN schemas ELSE Append(schemas, Head(others)),
                      Tail(others))

\* registry.merge(other)
RegistryMerge(reg, other) ==
    [tools |-> MergeTools(reg.tools, other.tools),
     schemas |-> MergeSchemas(reg.schemas, other.schemas),
     restrictions |-> reg.restrictions]

\* register_builtin_tools(registry): filesystem, bash, search, search once
\* more, todo
BuiltinRegistry ==
    RegistryTool(
        RegistryTool(
            RegistryTool(
                RegistryTool(
                    RegistryTool(EmptyRegistry, "read_file", 1, {}),
                    "bash", 1, {}),
                "grep", 1, {}),
            "grep", 1, {}),
        "todo", 1, {"parent"})

\* register_sub_agent_tool(registry, ...)
WithSubAgentTool(reg) == RegistryTool(reg, "sub_agent", 1, {"parent"})

\* the registrations made on a registry after the builtin ones: the
\* sub_agent tool, an MCP tool, a tool for child agents only, and the todo
\* tool again with other parameters and no allowed_modes
Registrations ==
    {<<"sub_agent", 1, {"parent"}>>, <<"mcp__tool", 1, {}>>,
     <<"helper", 1, {"child"}>>, <<"todo", 2, {}>>}

UnregisterNames == {"bash", "todo", "ghost"}

\* the registries merged into a registry: the default registry of the
\* builtin tools, and a registry of other tools that has its own todo tool
MergeSources ==
    {BuiltinRegistry,
     RegistryTool(RegistryTool(EmptyRegistry, "mcp__tool", 1, {}), "todo", 2, {})}

\* what the handler does that execute awaits: it returns a string, a string
\* that starts with "Error:", a value that is no string, it raises an
\* Exception, it does not accept the arguments (TypeError), or its task is
\* cancelled (CancelledError, a BaseException that is no Exception)
HandlerBehaviours ==
    {"returns_string", "returns_error_string", "returns_value", "raises", "bad_arguments",
     "cancelled"}

ExecuteNames == {"read_file", "todo", "ghost"}

\* a string execute returns: what it starts with, and where it comes from
ResultString(error, origin) == [starts_with_error |-> error, origin |-> origin]

\* an execute that lets the handler's exception go on
ExecuteUnguarded(reg, name, behaviour) ==
    IF ~HasTool(reg, name) THEN Returned(ResultString(TRUE, "unknown_tool"))
    ELSE IF behaviour \in {"raises", "bad_arguments", "cancelled"} THEN Raised(behaviour)
    ELSE Returned(ResultString(behaviour = "returns_error_string", "handler"))

\* registry.execute(name, arguments)
Execute(reg, name, behaviour) ==
    IF ~HasTool(reg, name) THEN Returned(ResultString(TRUE, "unknown_tool"))
    ELSE CASE behaviour = "returns_string" -> Returned(ResultString(FALSE, "handler"))
           [] behaviour = "returns_error_string" -> Returned(ResultString(TRUE, "handler"))
           [] behaviour = "returns_value" -> Returned(ResultString(FALSE, "handler"))
           [] behaviour = "cancelled" -> Raised(behaviour)
           [] OTHER -> Returned(ResultString(TRUE, "handler_exception"))

NoExecution == [raised |-> FALSE, value |-> ResultString(FALSE, "none")]

RegInit ==
    /\ tool_registry = BuiltinRegistry
    /\ filtered = EmptyRegistry
    /\ filter_mode = "none"
    /\ registry_before = BuiltinRegistry
    /\ executed = [name |-> "none", behaviour |-> "none", outcome |-> NoExecution]
    /\ regOp = "init"
    /\ regOps = 0

RegIdle == RegInit

RegFrame ==
    UNCHANGED <<memVars, todoVars, execVars, agentVars, delegVars, busVars, loopVars, statusVars,
                analysisVars, moreVars>>

RegCall(op) ==
    /\ regOps < MaxRegOps
    /\ regOps' = regOps + 1
    /\ regOp' = op
    /\ registry_before' = tool_registry

\* registry.tool(...) / registry.register(...)
RegTool ==
    /\ RegCall("tool")
    /\ \E r \in Registrations : tool_registry' = RegistryTool(tool_registry, r[1], r[2], r[3])
    /\ UNCHANGED <<filtered, filter_mode, executed>>
    /\ RegFrame

\* registry.unregister(name)
RegUnregister ==
    /\ RegCall("unregister")
    /\ \E name \in UnregisterNames : tool_registry' = RegistryUnregister(tool_registry, name)
    /\ UNCHANGED <<filtered, filter_mode, executed>>
    /\ RegFrame

\* registry.filter_by_mode(mode)
RegFilterByMode ==
    /\ RegCall("filter_by_mode")
    /\ \E mode \in AgentModes :
         /\ filtered' = RegistryFilterByMode(tool_registry, mode)
         /\ filter_mode' = mode
    /\ UNCHANGED <<tool_registry, executed>>
    /\ RegFrame

\* registry.merge(other)
RegMerge ==
    /\ RegCall("merge")
    /\ \E other \in MergeSources : tool_registry' = RegistryMerge(tool_registry, other)
    /\ UNCHANGED <<filtered, filter_mode, executed>>
    /\ RegFrame

\* await registry.execute(name, arguments)
RegExecute ==
    /\ RegCall("execute")
    /\ \E name \in ExecuteNames, behaviour \in HandlerBehaviours :
         executed' = [name |-> name, behaviour |-> behaviour,
                      outcome |-> Execute(tool_registry, name, behaviour)]
    /\ UNCHANGED <<tool_registry, filtered, filter_mode>>
    /\ RegFrame

-----------------------------------------------------------------------------
(* One delegation on the asyncio event loop: execute_sub_agent waiting in    *)
(* wait_for(gather(child_agent.run(task), display_sub_agent_progress(...)),  *)
(* timeout). The loop runs its ready callbacks first in first out; provider  *)
(* responses, tool results, the timer and the storage arrive from outside.   *)

\* Task.done(): the coroutine returned, was cancelled, or raised
TaskDone(task) == task.pc \in {"done", "cancelled", "failed"}

NewTask == [pc |-> "created", scheduled |-> TRUE, must_cancel |-> FALSE,
            input |-> "none", turn |-> 0]

\* Task.cancel(): False for a task that is done; otherwise the awaited future
\* is cancelled, or _must_cancel is set, and the task's next step throws
\* CancelledError into the coroutine
TaskCancel(task) ==
    IF TaskDone(task) THEN task
    ELSE [task EXCEPT !.must_cancel = TRUE, !.scheduled = TRUE]

\* the callback Task.cancel() puts on the loop for a task that was waiting
CancelWakes(task, name) ==
    IF ~TaskDone(task) /\ ~task.scheduled THEN <<name>> ELSE <<>>

\* a step of the subscribe generator's cleanup that leaves the queue registered
KeepSubscribers(subscribers, q) == subscribers

\* EventBus.subscribe, finally: self._subscribers[session_id].remove(queue)
SubscribeFinally(subscribers, q) == subscribers \ {q}

\* one step of the task of Agent.run, from where it was suspended to its next
\* await: the events it publishes with await (inline), the number of
\* update_state calls (each a create_task(publish)), and the provider calls
\* and tool invocations it starts. A cancelled task gets CancelledError at its
\* await; run catches Exception only, so the coroutine ends there. When the
\* provider raises, the except branch publishes agent_done and re-raises.
ChildStep(task) ==
    IF task.must_cancel
    THEN [pc |-> "cancelled", inline |-> <<>>, inline_first |-> FALSE,
          state_tasks |-> 0, provider |-> 0, tools |-> 0, turn |-> task.turn]
    ELSE CASE task.pc = "created" ->
                [pc |-> "await_completion", inline |-> <<"agent_start">>,
                 inline_first |-> FALSE, state_tasks |-> 2, provider |-> 1,
                 tools |-> 0, turn |-> 1]
           [] task.pc = "await_completion" /\ task.input = "final" ->
                [pc |-> "done", inline |-> <<"agent_done">>, inline_first |-> FALSE,
                 state_tasks |-> 1, provider |-> 0, tools |-> 0, turn |-> task.turn]
           [] task.pc = "await_completion" /\ task.input = "raise" ->
                [pc |-> "failed", inline |-> <<"agent_done">>, inline_first |-> FALSE,
                 state_tasks |-> 0, provider |-> 0, tools |-> 0, turn |-> task.turn]
           [] task.pc = "await_completion" /\ task.input = "tools" ->
                [pc |-> "await_tools", inline |-> <<"tool_start">>,
                 inline_first |-> FALSE, state_tasks |-> 1, provider |-> 0,
                 tools |-> 1, turn |-> task.turn]
           [] OTHER ->
                IF task.turn < MaxChildTurns
                THEN [pc |-> "await_completion", inline |-> <<"tool_done">>,
                      inline_first |-> TRUE, state_tasks |-> 1, provider |-> 1,
                      tools |-> 0, turn |-> task.turn + 1]
                ELSE [pc |-> "done", inline |-> <<"tool_done", "agent_done">>,
                      inline_first |-> TRUE, state_tasks |-> 1, provider |-> 0,
                      tools |-> 0, turn |-> task.turn]

\* EventBus.publish for the child's session: history, then every queue
BusPublishChild(events) ==
    /\ child_events' = child_events \o events
    /\ child_queue' = IF child_subscribers # {} THEN child_queue \o events ELSE child_queue

\* a put that wakes nobody
PutWakesNobody(events) == <<>>

\* queue.put hands the event to the getter the progress task is waiting in
PutWakes(events) ==
    IF /\ events # <<>>
       /\ child_subscribers # {}
       /\ display_task.pc = "await_queue"
       /\ ~display_task.scheduled
    THEN <<"display">> ELSE <<>>

\* gather's future is done once both tasks are, or as soon as one of them has
\* raised (the other goes on running); its done callback releases the waiter
\* execute_sub_agent sleeps on
GatherDone(child, display) ==
    /\ (TaskDone(child) /\ TaskDone(display)) \/ child.pc = "failed"
    /\ ~wait_for.waiter_done

ReleaseWaiter(done) == IF done THEN <<"waiter">> ELSE <<>>

CountersNow ==
    [events |-> Len(child_events), provider_calls |-> provider_calls,
     tool_invocations |-> tool_invocations]

\* the timeout the model passed to sub_agent: positive, or not (wait_for then
\* cancels the gather before either task has run)
TimeoutKinds == {"positive", "zero"}

LoopStart(timeout) ==
    /\ loop_ready = <<"child", "display">>
    /\ child_task = IF timeout = "zero" THEN TaskCancel(NewTask) ELSE NewTask
    /\ display_task = IF timeout = "zero" THEN TaskCancel(NewTask) ELSE NewTask
    /\ agen = "unstarted"
    /\ child_subscribers = {}
    /\ child_queue = <<>>
    /\ child_events = <<>>
    /\ provider_calls = 0
    /\ tool_invocations = 0
    /\ wait_for = IF timeout = "zero"
                  THEN [pc |-> "cancelling", timer |-> "none", waiter_done |-> FALSE]
                  ELSE [pc |-> "waiting", timer |-> "armed", waiter_done |-> FALSE]
    /\ at_return = [events |-> 0, provider_calls |-> 0, tool_invocations |-> 0]

LoopInit == \E timeout \in TimeoutKinds : LoopStart(timeout)

LoopIdle == LoopStart("positive")

LoopFrame ==
    UNCHANGED <<memVars, todoVars, execVars, agentVars, delegVars, busVars, regVars, statusVars,
                analysisVars, moreVars>>

\* the loop runs a step of the child's task
RunChild ==
    /\ loop_ready # <<>> /\ Head(loop_ready) = "child"
    /\ LET st == ChildStep(child_task)
           next == [pc |-> st.pc, scheduled |-> FALSE, must_cancel |-> FALSE,
                    input |-> "none", turn |-> st.turn]
           wake == PutWakes(st.inline)
           tasks == [i \in 1..st.state_tasks |-> "publish"]
           done == GatherDone(next, display_task)
       IN  /\ child_task' = next
           /\ BusPublishChild(st.inline)
           /\ display_task' = IF wake # <<>>
                              THEN [display_task EXCEPT !.scheduled = TRUE]
                              ELSE display_task
           /\ loop_ready' = Tail(loop_ready)
                            \o (IF st.inline_first THEN wake \o tasks ELSE tasks \o wake)
                            \o ReleaseWaiter(done)
           /\ wait_for' = IF done THEN [wait_for EXCEPT !.waiter_done = TRUE] ELSE wait_for
           /\ provider_calls' = provider_calls + st.provider
           /\ tool_invocations' = tool_invocations + st.tools
    /\ UNCHANGED <<agen, child_subscribers, at_return>>
    /\ LoopFrame

\* the loop runs a task made by StateManager.update_state:
\* create_task(event_bus.publish(agent_state_change))
RunPublish ==
    /\ loop_ready # <<>> /\ Head(loop_ready) = "publish"
    /\ BusPublishChild(<<"agent_state_change">>)
    /\ LET wake == PutWakes(<<"agent_state_change">>)
       IN  /\ display_task' = IF wake # <<>>
                              THEN [display_task EXCEPT !.scheduled = TRUE]
                              ELSE display_task
           /\ loop_ready' = Tail(loop_ready) \o wake
    /\ UNCHANGED <<child_task, agen, child_subscribers, provider_calls,
                   tool_invocations, wait_for, at_return>>
    /\ LoopFrame

HasDone(q) == \E i \in 1..Len(q) : q[i] = "agent_done"

\* what is left in the queue when the consumer has taken agent_done
AfterDone(q) ==
    LET i == CHOOSE k \in 1..Len(q) :
                 q[k] = "agent_done" /\ \A j \in 1..(k - 1) : q[j] # "agent_done"
    IN  SubSeq(q, i + 1, Len(q))

\* the loop runs a step of display_sub_agent_progress: on its first step the
\* generator registers its queue and replays the history; the consumer takes
\* events until the queue is empty (it then waits in queue.get()) or until
\* agent_done (it breaks, and the generator it leaves at its yield is handed
\* to the loop's asyncgen finalizer). A cancelled task gets CancelledError in
\* queue.get(), inside the generator, whose finally block runs.
RunDisplay ==
    /\ loop_ready # <<>> /\ Head(loop_ready) = "display"
    /\ LET q == IF display_task.pc = "created" THEN child_events ELSE child_queue
           next == [display_task EXCEPT
                      !.scheduled = FALSE, !.must_cancel = FALSE,
                      !.pc = IF display_task.must_cancel THEN "cancelled"
                             ELSE IF HasDone(q) THEN "done" ELSE "await_queue"]
           done == GatherDone(child_task, next)
       IN  /\ display_task' = next
           /\ IF display_task.must_cancel
              THEN IF display_task.pc = "created"
                   THEN UNCHANGED <<agen, child_subscribers, child_queue>>
                   ELSE /\ agen' = "closed"
                        /\ child_subscribers' = SubscribeFinally(child_subscribers, "progress")
                        /\ UNCHANGED child_queue
              ELSE /\ child_subscribers' = child_subscribers \cup {"progress"}
                   /\ agen' = IF HasDone(q) THEN "at_yield" ELSE "in_get"
                   /\ child_queue' = IF HasDone(q) THEN AfterDone(q) ELSE <<>>
           /\ loop_ready' = Tail(loop_ready)
                            \o (IF ~display_task.must_cancel /\ HasDone(q)
                                THEN <<"finalizer">> ELSE <<>>)
                            \o ReleaseWaiter(done)
           /\ wait_for' = IF done THEN [wait_for EXCEPT !.waiter_done = TRUE] ELSE wait_for
    /\ UNCHANGED <<child_task, child_events, provider_calls, tool_invocations, at_return>>
    /\ LoopFrame

\* the loop's asyncgen finalizer: create_task(agen.aclose())
RunFinalizer ==
    /\ loop_ready # <<>> /\ Head(loop_ready) = "finalizer"
    /\ loop_ready' = Tail(loop_ready) \o <<"aclose">>
    /\ UNCHANGED <<child_task, display_task, agen, child_subscribers, child_queue,
                   child_events, provider_calls, tool_invocations, wait_for, at_return>>
    /\ LoopFrame

\* aclose() throws GeneratorExit at the yield: the finally block runs
RunAclose ==
    /\ loop_ready # <<>> /\ Head(loop_ready) = "aclose"
    /\ loop_ready' = Tail(loop_ready)
    /\ agen' = "closed"
    /\ child_subscribers' = SubscribeFinally(child_subscribers, "progress")
    /\ UNCHANGED <<child_task, display_task, child_queue, child_events,
                   provider_calls, tool_invocations, wait_for, at_return>>
    /\ LoopFrame

\* the loop wakes execute_sub_agent in its wait_for. Woken by the gather or
\* by the timer: with the gather done it goes on to handle_success, or to
\* handle_exception_error with the child's exception; otherwise it cancels
\* the gather (both tasks) and waits for it. Woken after the cancellation:
\* TimeoutError, handle_timeout_error. Both error handlers await the storage.
RunWaiter ==
    /\ loop_ready # <<>> /\ Head(loop_ready) = "waiter"
    /\ IF wait_for.pc = "waiting"
       THEN IF child_task.pc = "failed"
            THEN /\ wait_for' = [wait_for EXCEPT !.pc = "handle_exception",
                                                 !.timer = "cancelled"]
                 /\ loop_ready' = Tail(loop_ready)
                 /\ UNCHANGED <<child_task, display_task, at_return>>
            ELSE IF TaskDone(child_task) /\ TaskDone(display_task)
            THEN /\ wait_for' = [wait_for EXCEPT !.pc = "returned_success",
                                                 !.timer = "cancelled"]
                 /\ at_return' = CountersNow
                 /\ loop_ready' = Tail(loop_ready)
                 /\ UNCHANGED <<child_task, display_task>>
            ELSE /\ child_task' = TaskCancel(child_task)
                 /\ display_task' = TaskCancel(display_task)
                 /\ loop_ready' = Tail(loop_ready) \o CancelWakes(child_task, "child")
                                                   \o CancelWakes(display_task, "display")
                 /\ wait_for' = [wait_for EXCEPT !.pc = "cancelling",
                                                 !.waiter_done = FALSE]
                 /\ UNCHANGED at_return
       ELSE /\ wait_for.pc = "cancelling"
            /\ loop_ready' = Tail(loop_ready)
            /\ UNCHANGED <<child_task, display_task, at_return>>
            /\ wait_for' = [wait_for EXCEPT !.pc = "handle_timeout"]
    /\ UNCHANGED <<agen, child_subscribers, child_queue, child_events,
                   provider_calls, tool_invocations>>
    /\ LoopFrame

\* what the provider answers: a final text or tool calls, or it raises
ResponseKinds == {"final", "tools", "raise"}

\* the provider's response arrives for the completion the child awaits
ProviderResponds ==
    \E kind \in ResponseKinds :
        /\ child_task.pc = "await_completion" /\ ~child_task.scheduled
        /\ child_task' = [child_task EXCEPT !.scheduled = TRUE, !.input = kind]
        /\ loop_ready' = Append(loop_ready, "child")
    /\ UNCHANGED <<display_task, agen, child_subscribers, child_queue, child_events,
                   provider_calls, tool_invocations, wait_for, at_return>>
    /\ LoopFrame

\* the tool handlers the child awaits have returned
ToolCompletes ==
    /\ child_task.pc = "await_tools" /\ ~child_task.scheduled
    /\ child_task' = [child_task EXCEPT !.scheduled = TRUE, !.input = "result"]
    /\ loop_ready' = Append(loop_ready, "child")
    /\ UNCHANGED <<display_task, agen, child_subscribers, child_queue, child_events,
                   provider_calls, tool_invocations, wait_for, at_return>>
    /\ LoopFrame

\* the timeout of wait_for expires
TimerFires ==
    /\ wait_for.pc = "waiting" /\ wait_for.timer = "armed"
    /\ wait_for' = [wait_for EXCEPT !.timer = "fired", !.waiter_done = TRUE]
    /\ loop_ready' = loop_ready \o ReleaseWaiter(~wait_for.waiter_done)
    /\ UNCHANGED <<child_task, display_task, agen, child_subscribers, child_queue,
                   child_events, provider_calls, tool_invocations, at_return>>
    /\ LoopFrame

\* storage.log_session_event returns to handle_timeout_error or to
\* handle_exception_error, which returns
StorageReturns ==
    /\ wait_for.pc \in {"handle_timeout", "handle_exception"}
    /\ wait_for' = [wait_for EXCEPT !.pc = IF wait_for.pc = "handle_timeout"
                                           THEN "returned_timeout"
                                           ELSE "returned_exception"]
    /\ at_return' = CountersNow
    /\ UNCHANGED <<loop_ready, child_task, display_task, agen, child_subscribers,
                   child_queue, child_events, provider_calls, tool_invocations>>
    /\ LoopFrame

-----------------------------------------------------------------------------
(* Agent.status over the runs of one agent with a session id: the          *)
(* update_state calls of Agent.run and of sub_agent (a parent agent has a   *)
(* flow renderer and the sub_agent tool, a child agent has neither).         *)

\* StateManager.update_state(state): the new status.state and the record of
\* the call: the state before, the state after, the caller, and the
\* agent_state_change events it publishes (one task per call)
UpdateState(status, new_state, by) ==
    [state |-> new_state,
     call  |-> [from |-> status.state, to |-> new_state, by |-> by,
                events |-> <<new_state>>]]

\* more tokens than the runs of the model put into the window
RunTokens == (MaxRuns + 1) * (2 + 2 * MaxTurns) * 2

\* self.memory.add(m) of the agent
RunAdd(mem, m) == MemoryAdd(mem, m, RunTokens, 0)

\* the assistant message of a response with one tool call: a fresh call id
RunCallsMsg(mem) ==
    CallsMsg(0, 1 + Len(SelectSeq(mem.messages, LAMBDA m : m.calls # <<>>)), 1, 1)

\* the call ids of the last assistant message of the window
LastCallIds(mem) ==
    LET withCalls == SelectSeq(mem.messages, LAMBDA m : m.calls # <<>>)
    IN  IF withCalls = <<>> THEN {} ELSE CallIds(withCalls[Len(withCalls)])

StatusInit ==
    /\ run_pc = "new"
    /\ run_turn = 0
    /\ run_max_turns \in 0..MaxTurns
    /\ runs = 0
    /\ run_mode \in AgentModes
    /\ agent_status = [state |-> "idle", child_sessions |-> <<>>]
    /\ delegating = {}
    /\ next_child = 1
    /\ updates = <<>>
    /\ run_memory = [messages |-> <<>>, system_prompt |-> TextMsg("system", 1)]

StatusIdle ==
    /\ run_pc = "new"
    /\ run_turn = 0
    /\ run_max_turns = 0
    /\ runs = 0
    /\ run_mode = "parent"
    /\ agent_status = [state |-> "idle", child_sessions |-> <<>>]
    /\ delegating = {}
    /\ next_child = 1
    /\ updates = <<>>
    /\ run_memory = [messages |-> <<>>, system_prompt |-> TextMsg("system", 1)]

StatusFrame ==
    UNCHANGED <<memVars, todoVars, execVars, agentVars, delegVars, busVars, regVars,
                loopVars, analysisVars, moreVars, run_max_turns, run_mode>>

\* the head of the turn loop after done turns: the next turn's update_state
\* and provider call, or "Max turns exceeded"
StatusLoopHead(status, done, before) ==
    LET u == UpdateState(status, IF done < run_max_turns THEN "thinking" ELSE "failed",
                         "run")
    IN  /\ agent_status' = [agent_status EXCEPT !.state = u.state]
        /\ updates' = Append(before, u.call)
        /\ run_turn' = IF done < run_max_turns THEN done + 1 ELSE done
        /\ run_pc' = IF done < run_max_turns THEN "completion" ELSE "returned"

\* Agent.run is called (again): up to the first provider call
StatusRunStart ==
    /\ run_pc \in {"new", "returned", "raised"}
    /\ runs < MaxRuns
    /\ runs' = runs + 1
    /\ LET u == UpdateState(agent_status, "thinking", "run")
       IN  StatusLoopHead([agent_status EXCEPT !.state = u.state], 0, <<u.call>>)
    /\ run_memory' = RunAdd(run_memory, UserMessage)
    /\ UNCHANGED <<delegating, next_child>>
    /\ StatusFrame

\* the provider call returns a text, tool calls, or raises
StatusCompletion ==
    /\ run_pc = "completion"
    /\ \E kind \in {"text", "calls", "raise"} :
         IF kind = "raise"
         THEN /\ run_pc' = "raised"
              /\ updates' = <<>>
              /\ UNCHANGED <<agent_status, run_memory>>
         ELSE LET u == UpdateState(agent_status,
                                   IF kind = "text" THEN "completed" ELSE "executing",
                                   "run")
              IN  /\ agent_status' = [agent_status EXCEPT !.state = u.state]
                  /\ updates' = <<u.call>>
                  /\ run_pc' = IF kind = "text" THEN "returned" ELSE "executing"
                  /\ run_memory' = RunAdd(run_memory,
                                          IF kind = "text" THEN FinalMessage
                                                           ELSE RunCallsMsg(run_memory))
    /\ UNCHANGED <<run_turn, runs, delegating, next_child>>
    /\ StatusFrame

\* a sub_agent call of the batch begins: execute_sub_agent up to its wait_for
StatusDelegate ==
    /\ run_pc = "executing"
    /\ run_mode = "parent"
    /\ next_child <= MaxChildren
    /\ LET u == UpdateState(agent_status, "waiting", "sub_agent")
       IN  /\ agent_status' = [state |-> u.state,
                               child_sessions |-> Append(agent_status.child_sessions,
                                                         next_child)]
           /\ updates' = <<u.call>>
    /\ delegating' = delegating \cup {next_child}
    /\ next_child' = next_child + 1
    /\ UNCHANGED <<run_pc, run_turn, runs, run_memory>>
    /\ StatusFrame

\* a delegation ends: handle_success, handle_timeout_error or
\* handle_exception_error
StatusChildEnds ==
    /\ \E c \in delegating, outcome \in {"success", "timeout", "exception"} :
         /\ delegating' = delegating \ {c}
         /\ IF outcome = "success"
            THEN LET u == UpdateState(agent_status, "executing", "sub_agent")
                 IN  /\ agent_status' =
                           [state |-> u.state,
                            child_sessions |-> ListRemove(agent_status.child_sessions, c)]
                     /\ updates' = <<u.call>>
            ELSE /\ agent_status' = [agent_status EXCEPT
                                       !.child_sessions = ListRemove(@, c)]
                 /\ updates' = <<>>
    /\ UNCHANGED <<run_pc, run_turn, runs, next_child, run_memory>>
    /\ StatusFrame

\* execute_tools returns its results, which are added to the memory, or it
\* raises (an exception, a KeyboardInterrupt or a cancellation at its await)
StatusToolsEnd ==
    /\ run_pc = "executing"
    /\ delegating = {}
    /\ \E raised \in BOOLEAN :
         IF raised
         THEN /\ run_pc' = "raised"
              /\ updates' = <<>>
              /\ UNCHANGED <<agent_status, run_turn, run_memory>>
         ELSE /\ StatusLoopHead(agent_status, run_turn, <<>>)
              /\ run_memory' = RunAdd(run_memory,
                                      ToolMsg(CHOOSE id \in LastCallIds(run_memory) : TRUE, 1))
    /\ UNCHANGED <<runs, delegating, next_child>>
    /\ StatusFrame

(* Timeout analysis: analyze_timeout_failure over a child's ExecutionLog *)

LoggedTools == {"read_file", "write_file", "edit_file", "bash"}

AnalysisTimeouts == {1, 180}

LoggedPaths == {"a", "b"}

\* the arguments of a call, a dict with one key: the file tools take the file
\* as "path" (filesystem.py, parameters of read_file, write_file, edit_file)
Args(key, value) == [key |-> key, value |-> value]

LoggedArgs == {Args("path", p) : p \in LoggedPaths} \cup {Args("file_path", "a")}

\* args.get(key, default)
ArgsGet(args, key, default) == IF args.key = key THEN args.value ELSE default

\* ToolExecution(tool_name, args, ..., success, ...)
ToolExecution(tool_name, args, success) ==
    [tool_name |-> tool_name, args |-> args, success |-> success]

\* ExecutionLog.files_modified
FilesModified == files_written \cup files_edited

\* [te for te in exec_log.tool_executions if te.tool_name == name and te.success]
SuccessfulOf(tool_executions, name) ==
    SelectSeq(tool_executions, LAMBDA te : te.tool_name = name /\ te.success)

\* completed_steps: "Created N files" then "Modified N files", each only when N > 0
CompletedSteps(tool_executions) ==
    LET successful_writes == SuccessfulOf(tool_executions, "write_file")
        successful_edits == SuccessfulOf(tool_executions, "edit_file")
    IN (IF successful_writes # <<>>
        THEN <<[step |-> "Created", files |-> Len(successful_writes)]>> ELSE <<>>)
       \o (IF successful_edits # <<>>
           THEN <<[step |-> "Modified", files |-> Len(successful_edits)]>> ELSE <<>>)

\* needs_more_time = tool_count > 0, tool_count = len(exec_log.tool_executions)
NeedsMoreTime(tool_executions) == Len(tool_executions) > 0

\* analyze_timeout_failure(child_agent, session_id, duration, timeout, prompt);
\* a child agent always has an execution log (Agent.__init__, mode CHILD)
AnalyzeTimeoutFailure(tool_executions, timeout) ==
    LET needs_more_time == NeedsMoreTime(tool_executions)
    IN [category |-> "timeout",
        completed_steps |-> CompletedSteps(tool_executions),
        suggested_retry |-> needs_more_time,
        suggested_actions |->
            (IF needs_more_time THEN <<[action |-> "retry", timeout |-> timeout * 2]>>
                                ELSE <<>>)
            \o <<[action |-> "split", timeout |-> 0]>>,
        last_successful_tool |->
            IF tool_executions # <<>> THEN tool_executions[Len(tool_executions)].tool_name
                                      ELSE "None"]

NoFailure ==
    [category |-> "none", completed_steps |-> <<>>, suggested_retry |-> FALSE,
     suggested_actions |-> <<>>, last_successful_tool |-> "None"]

AnalysisStart(timeout) ==
    /\ execution_log = <<>>
    /\ analysis_timeout = timeout
    /\ analysis_pc = "running"
    /\ child_failure = NoFailure
    /\ files_read = {}
    /\ files_written = {}
    /\ files_edited = {}

AnalysisInit == \E timeout \in AnalysisTimeouts : AnalysisStart(timeout)

AnalysisIdle == AnalysisStart(180)

AnalysisFrame ==
    UNCHANGED <<memVars, todoVars, execVars, agentVars, delegVars, busVars, regVars,
                loopVars, statusVars, moreVars, analysis_timeout>>

\* the child executes a tool: _record_tool_execution appends to the log and
\* tracks the file operations. A file tool called without "path" does not run
\* (the handler call raises TypeError, which the registry turns into an error)
RecordToolExecution ==
    \E name \in LoggedTools, args \in LoggedArgs, success \in BOOLEAN :
        /\ analysis_pc = "running"
        /\ Len(execution_log) < MaxLogLen
        /\ args.key # "path" => ~success
        /\ execution_log' = Append(execution_log, ToolExecution(name, args, success))
        /\ files_read' = IF name = "read_file"
                          THEN files_read \cup {ArgsGet(args, "file_path", "")}
                          ELSE files_read
        /\ files_written' = IF name = "write_file"
                             THEN files_written \cup {ArgsGet(args, "file_path", "")}
                             ELSE files_written
        /\ files_edited' = IF name = "edit_file"
                            THEN files_edited \cup {ArgsGet(args, "file_path", "")}
                            ELSE files_edited
        /\ UNCHANGED <<analysis_pc, child_failure>>
        /\ AnalysisFrame

\* wait_for raises TimeoutError: handle_timeout_error analyses the child's log
AnalysisTimeout ==
    /\ analysis_pc = "running"
    /\ analysis_pc' = "timed_out"
    /\ child_failure' = AnalyzeTimeoutFailure(execution_log, analysis_timeout)
    /\ UNCHANGED <<execution_log, files_read, files_written, files_edited>>
    /\ AnalysisFrame

\* the child returns in time: nothing is analysed
AnalysisChildReturns ==
    /\ analysis_pc = "running"
    /\ analysis_pc' = "returned"
    /\ UNCHANGED <<execution_log, child_failure, files_read, files_written, files_edited>>
    /\ AnalysisFrame

-----------------------------------------------------------------------------

(* Streaming driver: stream_completion assembling one assistant message *)

StreamIndexes == {0, 1}

\* one entry of delta.tool_calls: index, id (may be empty), function.name (may
\* be empty), function.arguments (a fragment, may be empty); strings are
\* sequences of characters
ToolCallDelta(index, id, name, arguments) ==
    [index |-> index, id |-> id, name |-> name, arguments |-> arguments]

ToolCallDeltas ==
    {ToolCallDelta(index, id, name, arguments) :
        index \in StreamIndexes, id \in {<<>>, <<"c">>}, name \in {<<>>, <<"t">>},
        arguments \in {<<>>, <<"x">>, <<"y">>}}

\* a chunk: choices[0].delta.content and choices[0].delta.tool_calls
Chunk(content, tcs) == [content |-> content, tool_calls |-> tcs]

Chunks ==
    {Chunk(<<"h">>, <<>>)}
    \cup {Chunk(<<>>, <<delta>>) : delta \in ToolCallDeltas}
    \cup {Chunk(<<>>, <<ToolCallDelta(i, <<"c">>, <<"t">>, <<>>),
                        ToolCallDelta(1 - i, <<"c">>, <<"t">>, <<>>)>>) : i \in StreamIndexes}

\* position of idx among the keys of the dict collected (0: not a key); a dict
\* keeps its keys in insertion order
KeyPosition(collected, idx) ==
    IF \E k \in 1..Len(collected) : collected[k].index = idx
    THEN CHOOSE k \in 1..Len(collected) : collected[k].index = idx
    ELSE 0

\* _collect_tool_calls, the body of the loop for one tc
CollectOne(tc, collected) ==
    LET withKey == IF KeyPosition(collected, tc.index) = 0
                   THEN Append(collected, [index |-> tc.index, id |-> tc.id,
                                           name |-> <<>>, arguments |-> <<>>])
                   ELSE collected
        k == KeyPosition(withKey, tc.index)
    IN [withKey EXCEPT
          ![k].id = IF tc.id # <<>> THEN tc.id ELSE @,
          ![k].name = IF tc.name # <<>> THEN tc.name ELSE @,
          ![k].arguments = @ \o tc.arguments]

RECURSIVE CollectToolCalls(_, _)
\* _collect_tool_calls(tool_calls, collected)
CollectToolCalls(tcs, collected) ==
    IF tcs = <<>> THEN collected
    ELSE CollectToolCalls(Tail(tcs), CollectOne(Head(tcs), collected))

RECURSIVE JoinFragments(_)
\* "".join(fragments)
JoinFragments(fragments) ==
    IF fragments = <<>> THEN <<>> ELSE Head(fragments) \o JoinFragments(Tail(fragments))

\* list(tool_calls.values()): the values in insertion order
DictValues(collected) == collected

\* _build_message(content, tool_calls): "content" only for a non-empty list,
\* "tool_calls" only for a non-empty dict (an absent key is the empty sequence)
BuildMessage(content, collected) ==
    [role |-> "assistant",
     has_content |-> content # <<>>,
     content |-> JoinFragments(content),
     tool_calls |-> DictValues(collected)]

StreamInit ==
    /\ collected_content = <<>>
    /\ collected_tool_calls = <<>>
    /\ stream_pc = "streaming"
    /\ stream_message = [role |-> "none", has_content |-> FALSE, content |-> <<>>,
                         tool_calls |-> <<>>]
    /\ stream_deltas = <<>>

StreamIdle == StreamInit

StreamFrame ==
    UNCHANGED <<memVars, todoVars, execVars, agentVars, delegVars, busVars, regVars,
                loopVars, statusVars, analysisVars>>

\* async for chunk in provider.complete(...): one chunk arrives
StreamChunk ==
    \E chunk \in Chunks :
        /\ stream_pc = "streaming"
        /\ Len(stream_deltas) + Len(collected_content)
             + Len(chunk.tool_calls) + Len(chunk.content) <= MaxDeltas
        /\ collected_content' = IF chunk.content # <<>>
                                THEN Append(collected_content, chunk.content)
                                ELSE collected_content
        /\ collected_tool_calls' = CollectToolCalls(chunk.tool_calls, collected_tool_calls)
        /\ stream_deltas' = stream_deltas \o chunk.tool_calls
        /\ UNCHANGED <<stream_pc, stream_message>>
        /\ StreamFrame

\* the stream ends: return _build_message(collected_content, collected_tool_calls)
StreamEnds ==
    /\ stream_pc = "streaming"
    /\ stream_pc' = "returned"
    /\ stream_message' = BuildMessage(collected_content, collected_tool_calls)
    /\ UNCHANGED <<collected_content, collected_tool_calls, stream_deltas>>
    /\ StreamFrame

MoreIdle == StreamIdle

-----------------------------------------------------------------------------

ExtIdle ==
    DelegInit /\ BusIdle /\ RegIdle /\ LoopIdle /\ StatusIdle /\ AnalysisIdle /\ MoreIdle

-----------------------------------------------------------------------------
(* Specifications *)

\* a memory nobody uses
MemIdle == max_tokens = MaxBudget /\ max_messages = 0 /\ MemInit

InitMemory == MemInit /\ TodoInit /\ ExecIdle /\ AgentIdle /\ ExtIdle

NextMemory == Add \/ AddBatch \/ SetSystemPrompt \/ Clear

SpecMemory == InitMemory /\ [][NextMemory]_vars

InitTrimScenario == ScenarioInit /\ TodoInit /\ ExecIdle /\ AgentIdle /\ ExtIdle

NextTrimScenario == ScenarioAdd

SpecTrimScenario == InitTrimScenario /\ [][NextTrimScenario]_vars

InitTrimmer == TrimmerInit /\ TodoInit /\ ExecIdle /\ AgentIdle /\ ExtIdle

NextTrimmer == RunTrim

SpecTrimmer == InitTrimmer /\ [][NextTrimmer]_vars

InitTodo == TodoInit /\ MemIdle /\ ExecIdle /\ AgentIdle /\ ExtIdle

NextTodo == TodoRead \/ TodoWrite \/ TodoUpdate \/ TodoComplete \/ TodoDelete

SpecTodo == InitTodo /\ [][NextTodo]_vars

InitExecutor == ExecInit /\ MemIdle /\ TodoInit /\ AgentIdle /\ ExtIdle

NextExecutor ==
    Partition \/ SeqBegin \/ SeqAnswer \/ SeqFinish \/ AutoStart \/ AutoFinish \/ Return

SpecExecutor == InitExecutor /\ [][NextExecutor]_vars

InitAgent == AgentInit /\ ExecIdle /\ MemIdle /\ TodoInit /\ ExtIdle

NextAgent ==
    \/ RunStart \/ CompletionReturns \/ ToolsReturned \/ ToolsRaised \/ Yield
    \/ Subscribe \/ Receive
    \/ Partition \/ SeqBegin \/ SeqAnswer \/ SeqFinish \/ AutoStart \/ AutoFinish \/ Return

SpecAgent == InitAgent /\ [][NextAgent]_vars

InitDelegation ==
    DelegInit /\ BusIdle /\ RegIdle /\ LoopIdle /\ StatusIdle /\ MemIdle /\ TodoInit /\ ExecIdle /\ AgentIdle
    /\ AnalysisIdle /\ MoreIdle

NextDelegation ==
    Delegate \/ ChildCall \/ GatherEnds \/ HandleSuccess \/ HandleTimeout \/ HandleException

SpecDelegation == InitDelegation /\ [][NextDelegation]_vars

InitEventBus ==
    BusInit /\ DelegInit /\ RegIdle /\ LoopIdle /\ StatusIdle /\ MemIdle /\ TodoInit /\ ExecIdle /\ AgentIdle
    /\ AnalysisIdle /\ MoreIdle

InitRegistry ==
    RegInit /\ DelegInit /\ BusIdle /\ LoopIdle /\ StatusIdle /\ MemIdle /\ TodoInit /\ ExecIdle /\ AgentIdle
    /\ AnalysisIdle /\ MoreIdle

NextRegistry == RegTool \/ RegUnregister \/ RegFilterByMode \/ RegMerge \/ RegExecute

SpecRegistry == InitRegistry /\ [][NextRegistry]_vars

InitTimeout ==
    LoopInit /\ DelegInit /\ BusIdle /\ RegIdle /\ StatusIdle /\ MemIdle /\ TodoInit /\ ExecIdle /\ AgentIdle
    /\ AnalysisIdle /\ MoreIdle

NextTimeout ==
    \/ RunChild \/ RunPublish \/ RunDisplay \/ RunFinalizer \/ RunAclose \/ RunWaiter
    \/ ProviderResponds \/ ToolCompletes \/ TimerFires \/ StorageReturns

SpecTimeout == InitTimeout /\ [][NextTimeout]_vars

\* the event loop runs every callback that is ready, and the local storage
\* answers; the provider, the tools and the timer are under no obligation
SpecTimeoutFair ==
    /\ SpecTimeout
    /\ WF_vars(RunChild) /\ WF_vars(RunPublish) /\ WF_vars(RunDisplay)
    /\ WF_vars(RunFinalizer) /\ WF_vars(RunAclose) /\ WF_vars(RunWaiter)
    /\ WF_vars(StorageReturns)

InitStatus ==
    StatusInit /\ DelegInit /\ BusIdle /\ RegIdle /\ LoopIdle /\ MemIdle /\ TodoInit /\ ExecIdle
    /\ AgentIdle /\ AnalysisIdle /\ MoreIdle

NextStatus ==
    StatusRunStart \/ StatusCompletion \/ StatusDelegate \/ StatusChildEnds \/ StatusToolsEnd

SpecStatus == InitStatus /\ [][NextStatus]_vars

InitAnalysis ==
    AnalysisInit /\ DelegInit /\ BusIdle /\ RegIdle /\ LoopIdle /\ StatusIdle /\ MemIdle /\ TodoInit
    /\ ExecIdle /\ AgentIdle /\ MoreIdle

NextAnalysis == RecordToolExecution \/ AnalysisTimeout \/ AnalysisChildReturns

SpecAnalysis == InitAnalysis /\ [][NextAnalysis]_vars

InitStream ==
    StreamInit /\ DelegInit /\ BusIdle /\ RegIdle /\ LoopIdle /\ StatusIdle /\ AnalysisIdle
    /\ MemIdle /\ TodoInit /\ ExecIdle /\ AgentIdle

NextStream == StreamChunk \/ StreamEnds

SpecStream == InitStream /\ [][NextStream]_vars

NextEventBus ==
    BusPublishEvent \/ BusSubscribe \/ BusReceive \/ BusFinish \/ CleanupSession

SpecEventBus == InitEventBus /\ [][NextEventBus]_vars

-----------------------------------------------------------------------------
(* Properties of ConversationMemory *)

\* tool message i of the window has an earlier assistant message carrying its id
HasParent(msgs, i) ==
    \E j \in 1..(i - 1) :
        msgs[j].role = "assistant" /\ msgs[i].tool_call_id \in CallIds(msgs[j])

OrphanFree(msgs) ==
    \A i \in 1..Len(msgs) :
        msgs[i].role = "tool" => (HasParent(msgs, i) \/ Len(msgs) = 1)

\* C2 as stated: with every tool message added (at any later time) after the
\* assistant message that carries its call id, every tool message in the window
\* has an earlier assistant message in the window carrying its id, or it is the
\* only message of the window.
C2_OrphanFreeAnyLaterAdd == OrphanFree(messages)

\* C2 amended: when every tool message was added directly after the assistant
\* message carrying its id, only other tool messages added in between, every
\* tool message in the window has an earlier assistant message in the window
\* carrying its id, or it is the only message of the window.
C2_OrphanFreeWhenAdjacent == adjacent => OrphanFree(messages)

\* a trim removed messages and left a tool message behind its assistant message
C2_Witness ==
    /\ adjacent
    /\ dropped > 0
    /\ \E i \in 1..Len(messages) : messages[i].role = "tool" /\ HasParent(messages, i)

\* the window is one assistant message with tool calls and its tool messages
OneToolGroup(msgs) ==
    /\ msgs # <<>>
    /\ Head(msgs).role = "assistant" /\ Head(msgs).calls # <<>>
    /\ \A i \in 2..Len(msgs) : msgs[i].role = "tool"

-----------------------------------------------------------------------------
(* Properties of the todo tool *)

\* C3: in every reachable state of the store at most one item is in_progress
\* and all item ids are distinct.
C3_OneInProgressUniqueIds == InProgressCount(todos) <= 1 /\ IdsUnique(todos)

\* an update was rejected while another item is in_progress, in a list of two
C3_Witness ==
    /\ Len(todos) = 2
    /\ InProgressCount(todos) = 1
    /\ todoResult.action = "update" /\ todoResult.outcome = "error"

-----------------------------------------------------------------------------
(* Properties of ToolExecutor *)

\* C1: the list execute_tools returns has the length of the input list and
\* its i-th element carries the id of the i-th input call, whatever the mix
\* of needs-prompt and auto-resolved calls.
C1_OutputInInputOrder ==
    execPc = "done" =>
        /\ Len(processed) = Len(tool_calls)
        /\ \A i \in 1..Len(tool_calls) : processed[i].tool_call_id = tool_calls[i].id

\* C4: no exception raised while handling a tool call leaves execute_tools,
\* and every call of a returned batch has a tool message of its own.
C4_NothingEscapes ==
    /\ execPc # "raised"
    /\ execPc = "done" =>
          \A i \in 1..Len(tool_calls) :
              \E j \in 1..Len(processed) :
                  /\ processed[j].kind = "message"
                  /\ processed[j].tool_call_id = tool_calls[i].id

\* the decision in the order the contract gives: allowlist, denylist,
\* approve-all flag, the user's answer
ContractDecision(call, flag, answer) ==
    CASE PermissionOf(call.tool) = "none" -> "allow"
      [] PermissionOf(call.tool) = "never" -> "deny"
      [] PermissionOf(call.tool) = "always" -> "allow"
      [] OTHER -> IF MatchesAllowlist(call) THEN "allow"
                  ELSE IF MatchesDenylist(call) THEN "deny"
                  ELSE IF flag THEN "allow"
                  ELSE IF AnswerAllows(answer) THEN "allow" ELSE "deny"

\* C5: every permission decision taken is the one the ordered checks give:
\* no config allows, never denies, always allows, and for ask an allowlist
\* match allows, else a denylist match denies, else a set approve-all flag
\* allows, else the user's answer decides.
C5_DecisionInContractOrder ==
    \A i \in 1..Len(decisions) :
        decisions[i].decision # "none" =>
            decisions[i].decision =
                ContractDecision(tool_calls[i], decisions[i].flag, decisions[i].answer)

-----------------------------------------------------------------------------
(* Properties of Agent.run *)

ProviderCalls == Cardinality({i \in 1..Len(addLog) : addLog[i].op = "provider"})

\* the run has ended with a final response in its first turn
CompletedWithoutTools ==
    agentPc = "returned" /\ result = "final_response" /\ current_turn = 1

\* C7: in a run that completes without tool calls every agent_state_change
\* is published before the run's agent_done: none is still to be published
\* when agent_done is, the history reads agent_start, thinking ...,
\* completed, agent_done(completed, 1), and a subscriber's stream does not
\* end before it has yielded the completed state change.
C7_StateChangesBeforeDone ==
    CompletedWithoutTools =>
        /\ pending_tasks = <<>>
        /\ \A i \in Positions(event_history, "agent_state_change") :
              \A j \in Positions(event_history, "agent_done") : i < j
        /\ event_history[1] = StartEvent
        /\ event_history[Len(event_history)] = DoneEvent("completed", 1)
        /\ event_history[Len(event_history) - 1] = StateEvent("completed", "none")
        /\ subPc = "ended" =>
              \E i \in 1..Len(received) : received[i] = StateEvent("completed", "none")

\* C8: when a step inside the turn loop raises, the state is failed, exactly
\* one agent_done event with status error is in the session's history, and
\* the exception leaves Agent.run.
C8_RaiseSetsFailed ==
    (response = "raise" \/ execPc = "raised") /\ agentPc \notin {"completion", "executing"} =>
        /\ agentPc = "raised"
        /\ state = "failed"
        /\ Cardinality({i \in Positions(event_history, "agent_done") :
                           event_history[i].status = "error"}) = 1

\* C9: Agent.run makes at most max_turns provider calls; a run that ends
\* after a response with tool calls whose batch returned has made exactly
\* max_turns turns, has set the state to failed, has published agent_done
\* with status max_turns as its one agent_done, and has returned the string
\* "Max turns exceeded"; a run raises only when a step inside the loop did.
C9_StopsAtMaxTurns ==
    /\ ProviderCalls <= max_turns
    /\ current_turn <= max_turns
    /\ agentPc = "returned" /\ response \in {"calls", "none"} =>
          /\ result = "Max turns exceeded"
          /\ current_turn = max_turns
          /\ ProviderCalls = max_turns
          /\ state = "failed"
          /\ Positions(event_history, "agent_done") # {}
          /\ \A j \in Positions(event_history, "agent_done") :
                event_history[j] = DoneEvent("max_turns", max_turns)
    /\ result = "Max turns exceeded" => agentPc = "returned" /\ response # "text"
    /\ agentPc = "raised" => response = "raise" \/ execPc = "raised"

\* a run of more than one turn has run out of turns
C9_Witness ==
    /\ agentPc = "returned"
    /\ result = "Max turns exceeded"
    /\ max_turns > 1
    /\ ProviderCalls = max_turns

\* the entries of the log from position from on
LogFrom(from) == SubSeq(addLog, from, Len(addLog))

\* the log of a turn whose tool batch has returned: the assistant message,
\* then one tool message per returned result, in the order returned
TurnLog ==
    <<AddEntry(CallsMsg(0, tool_calls[1].id, Len(tool_calls), 1))>>
    \o [i \in 1..Len(processed) |-> AddEntry(ToolMsg(processed[i].tool_call_id, 1))]

\* the tool batch of the current turn has returned and its results are added
ResultsAdded == response = "calls" /\ execPc = "done" /\ agentPc # "executing"

\* C10: when the results of a turn are added and the next provider call (if
\* any) is made, the log of the run ends with the assistant message, then
\* all of its tool results in the order the executor returned them, then
\* that provider call; and a run of one tool round-trip without trimming
\* leaves memory as [system, user, assistant(tool_calls=[c1]), tool(c1),
\* assistant].
C10_AssistantThenResults ==
    /\ ResultsAdded =>
          /\ Len(processed) = Len(tool_calls)
          /\ IF agentPc = "completion"
             THEN /\ Len(addLog) >= Len(TurnLog) + 2
                  /\ LogFrom(Len(addLog) - Len(TurnLog)) = TurnLog \o <<ProviderCall>>
                  /\ addLog[Len(addLog) - Len(TurnLog) - 1] = ProviderCall
             ELSE /\ Len(addLog) >= Len(TurnLog) + 1
                  /\ LogFrom(Len(addLog) - Len(TurnLog) + 1) = TurnLog
                  /\ addLog[Len(addLog) - Len(TurnLog)] = ProviderCall
    /\ ( /\ agentPc = "returned"
         /\ result = "final_response"
         /\ current_turn = 2
         /\ Len(tool_calls) = 1
         /\ memory_config.max_messages = 0 )
       => GetMessages(memory.messages, memory.system_prompt) =
             <<TextMsg("system", 1), UserMessage, CallsMsg(0, 1, 1, 1),
               ToolMsg(1, 1), FinalMessage>>

\* two results came back in an order other than the calls' and were added,
\* and the next provider call is made
C10_Witness ==
    /\ ResultsAdded
    /\ agentPc = "completion"
    /\ Len(processed) = 2
    /\ processed[1].tool_call_id = tool_calls[2].id

-----------------------------------------------------------------------------
(* Properties of delegation *)

\* C11: the tools of a child agent never hold sub_agent or todo, no child agent
\* calls execute_sub_agent, and every session created by delegation has a root
\* session (one without a parent) as its parent.
C11_ChildrenAreLeaves ==
    /\ \A s \in DOMAIN sessions :
          sessions[s].agent_mode = "child"
              => ToolNames(agent_tools[s]) \cap {"sub_agent", "todo"} = {}
    /\ \A c \in 1..Len(delegations) :
          sessions[delegations[c].caller].agent_mode = "parent"
    /\ \A s \in DOMAIN sessions :
          sessions[s].parent_id # NoSession
              => sessions[sessions[s].parent_id].parent_id = NoSession

\* C11 witness: every child session was created, and a running child that
\* called sub_agent and todo was answered "Unknown tool" both times.
C11_Witness ==
    /\ Len(delegations) = MaxChildren
    /\ \E c \in 1..Len(delegations) :
          /\ ToolResult("sub_agent", NoSession, RegistryError("Unknown tool"))
                 \in tool_results[c]
          /\ ToolResult("todo", NoSession, RegistryError("Unknown tool"))
                 \in tool_results[c]

\* C12: a delegation that ended by the child's timeout, by an exception of the
\* child run or of the progress renderer, or by an exception of the success
\* handling hands a ChildFailure string to the turn of the calling agent, whose
\* turn loop is still running.
C12_FailureReturnedAsString ==
    \A c \in 1..Len(delegations) :
        (delegations[c].pc = "returned" /\ delegations[c].cause # "none") =>
            /\ delegations[c].result.kind = "child_failure"
            /\ ToolResult("sub_agent", c, delegations[c].result)
                   \in tool_results[delegations[c].caller]
            /\ Live(delegations[c].caller)

\* C12 witness: one delegation returned after its success handling raised and
\* another after the progress renderer raised.
C12_Witness ==
    \E c, d \in 1..Len(delegations) :
        /\ delegations[c].pc = "returned" /\ delegations[c].cause = "success_raised"
        /\ delegations[d].pc = "returned" /\ delegations[d].cause = "renderer_raised"

\* C13: once sub_agent has returned, on success, on timeout or on an exception,
\* the child's session id is not in the parent's child_sessions.
C13_ReturnedChildNotListed ==
    \A c \in 1..Len(delegations) :
        delegations[c].pc = "returned"
            => ~InList(child_sessions[delegations[c].parent], c)

\* C13 witness: a delegation returned on timeout while the parent still lists
\* another, running child.
C13_Witness ==
    \E c, d \in 1..Len(delegations) :
        /\ delegations[c].pc = "returned" /\ delegations[c].cause = "timeout"
        /\ delegations[d].pc = "running"
        /\ InList(child_sessions[delegations[c].parent], d)

-----------------------------------------------------------------------------
(* Properties of the todo tool: the write lock and the error paths *)

C15_ErrorLeavesStore ==
    todoResult.outcome = "error" => ~todoResult.stored /\ ~todoResult.told

\* C15 witness: an update was refused over a list of two items of which one is
\* in_progress, and the observers hold the list as it is stored.
C15_Witness ==
    /\ todoResult.action = "update" /\ todoResult.outcome = "error"
    /\ Len(todos) = 2
    /\ InProgressCount(todos) = 1
    /\ observed = todos

-----------------------------------------------------------------------------
(* Properties of the EventBus *)

\* the events of session s among publish calls from + 1 .. until
SessionEvents(s, from, until) ==
    SelectSeq(SubSeq(publish_log, from + 1, until), LAMBDA e : e.session_id = s)

\* the number of publish calls made when subscriber k's queue left the bus
\* (all of them while it is registered)
Until(k) == IF QueueRegistered(k) THEN Len(publish_log) ELSE sub_until[k]

\* the events of its session published while subscriber k was registered
LiveEvents(k) == SessionEvents(sub_session[k], sub_from[k], Until(k))

\* everything put on subscriber k's queue, in the order it was put: what the
\* stream yielded, then what is still queued
Delivered(k) == sub_yielded[k] \o sub_queue[k]

\* the events of a list published after publish call n
After(seq, n) == SelectSeq(seq, LAMBDA e : e.seq > n)

\* the last n elements of a list
LastN(seq, n) == IF Len(seq) > n THEN SubSeq(seq, Len(seq) - n + 1, Len(seq)) ELSE seq

\* the history of its session when subscriber k registered: the most recent
\* max_history events published since the session's last cleanup
Retained(k) ==
    LastN(SessionEvents(sub_session[k], sub_cleared[k], sub_from[k]), max_history)

\* C16: the events put on a subscriber's queue after it registered are exactly
\* the events of its session published while it was registered, in publish
\* order and once each; no event of another session is ever put on its queue.
C16_DeliveredInPublishOrder ==
    \A k \in Subscribers :
        sub_pc[k] # "new" =>
            /\ After(Delivered(k), sub_from[k]) = LiveEvents(k)
            /\ \A i \in 1..Len(Delivered(k)) :
                  Delivered(k)[i].session_id = sub_session[k]

\* C16 witness: a subscriber of s1 and a subscriber of s2 registered at the
\* same time; the first has yielded two events published since, the second
\* has been given nothing.
C16_Witness ==
    \E k, j \in Subscribers :
        /\ sub_pc[k] = "listening" /\ sub_session[k] = "s1"
        /\ sub_pc[j] = "listening" /\ sub_session[j] = "s2"
        /\ sub_from[j] = sub_from[k]
        /\ Len(After(sub_yielded[k], sub_from[k])) = 2
        /\ Delivered(j) = <<>>

\* C17: a subscriber is first given the history its session retained when it
\* registered (the most recent max_history events, in publish order) and
\* then the events published while it is registered, in publish order: nothing
\* twice, nothing missing.
C17_HistoryThenLater ==
    \A k \in Subscribers :
        sub_pc[k] # "new" => Delivered(k) = Retained(k) \o LiveEvents(k)

\* C17 witness: a subscriber registered after the history had evicted its
\* oldest event, and has yielded the retained max_history events and a later one.
C17_Witness ==
    \E k \in Subscribers :
        /\ sub_pc[k] = "listening"
        /\ sub_from[k] > max_history
        /\ Len(Retained(k)) = max_history
        /\ Retained(k)[1].seq > 1
        /\ Len(sub_yielded[k]) > max_history
        /\ sub_queue[k] = <<>>

\* C18: a subscriber whose stream yielded agent_done ends its iteration there
\* without an exception, also when cleanup_session was called in between; once
\* it has ended, its last yielded event is an agent_done and its queue is not
\* registered with the bus.
C18_SubscriberEndsCleanly ==
    \A k \in Subscribers :
        /\ sub_pc[k] # "raised"
        /\ sub_pc[k] = "ended" =>
              /\ sub_yielded[k][Len(sub_yielded[k])].event_type = "agent_done"
              /\ ~QueueRegistered(k)


\* the results execute_one has returned for call i of the batch
ResultsOf(i) ==
    {results_with_permission[k] : k \in {j \in 1..Len(results_with_permission) :
                                            needs_permission[j] = i}}
    \cup {results_auto[k] : k \in {j \in 1..Len(auto_approved) :
                                      auto_approved[j] = i /\ autoPhase[j] = "done"}}

ScenarioTrimmed == ops = 1 /\ lastOp = "add" /\ dropped > 0

\* the window of the scenario with the added message, before the trim
ScenarioBefore == Append(ScenarioWindow, messages[Len(messages)])

\* C20 (as stated): when the window is [user m1, assistant(tool_calls=[c1]),
\* tool(c1)] and the message added forces trimming, the window afterwards
\* holds all three of those messages or none of them, and its first message
\* is no tool message.
C20_WholePrefixOrNone ==
    ScenarioTrimmed =>
        /\ messages = SubSeq(ScenarioBefore, dropped + 1, Len(ScenarioBefore))
        /\ dropped >= Len(ScenarioWindow)
        /\ messages[1].role # "tool"

\* C20 (amended): when the window is [user m1, assistant(tool_calls=[c1]),
\* tool(c1)] and the message added forces trimming, the window afterwards is
\* what is left after messages were dropped from the front; it holds both
\* the assistant message and its tool message or neither of them (m1 is
\* dropped first, and may be the only one dropped), and its first message
\* is no tool message.
C20_AssistantAndResultTogether ==
    ScenarioTrimmed =>
        /\ messages = SubSeq(ScenarioBefore, dropped + 1, Len(ScenarioBefore))
        /\ dropped # 2
        /\ messages[1].role # "tool"

\* C20 witness: a user message was added to the scenario's window, the trim
\* dropped m1 alone; the assistant message and its tool message are kept
C20_Witness ==
    /\ ScenarioTrimmed
    /\ dropped = 1
    /\ Len(messages) = 3
    /\ messages[1] = ScenarioWindow[2]
    /\ messages[2] = ScenarioWindow[3]
    /\ messages[3].role = "user"

\* C21: running the trimmer directly after it has run changes nothing: for
\* every window and every max_tokens / max_messages configuration the window
\* the trimmer leaves is a window the trimmer maps to itself.
C21_TrimIdempotent ==
    lastOp = "trim" =>
        Trim(messages, system_prompt, max_tokens, max_messages) = messages

\* C21 witness: the trimmer has run twice; the window it left is still over
\* budget with more than one message, and the second run dropped nothing
C21_Witness ==
    /\ lastOp = "trim"
    /\ ops = 2
    /\ dropped = 0
    /\ Len(messages) > 1
    /\ max_tokens < GetTokenCount(messages, system_prompt)

\* the names filter_by_mode(mode) is to keep: the tools of the registry that
\* have no restriction or whose allowed modes include the mode
AllowedNames(reg, mode) ==
    {n \in RegistryNames(reg) :
        n \notin DOMAIN reg.restrictions \/ mode \in reg.restrictions[n]}

\* the tools of the registry restricted to parent agents
ParentOnlyNames(reg) ==
    {n \in RegistryNames(reg) \cap DOMAIN reg.restrictions :
        reg.restrictions[n] = {"parent"}}

SeqRange(seq) == {seq[i] : i \in 1..Len(seq)}

C23_ExecuteReturnsError ==
    regOp = "execute" =>
        LET known == HasTool(registry_before, executed.name)
            out == executed.outcome
        IN /\ ~known =>
                /\ ~out.raised
                /\ out.value = ResultString(TRUE, "unknown_tool")
           /\ (known /\ executed.behaviour \in {"raises", "bad_arguments"}) =>
                /\ ~out.raised
                /\ out.value = ResultString(TRUE, "handler_exception")

\* C23 witness: execute was called for a registered tool whose handler
\* raised, and returned the error string
C23_Witness ==
    /\ regOp = "execute"
    /\ HasTool(registry_before, executed.name)
    /\ executed.behaviour = "raises"
    /\ ~executed.outcome.raised
    /\ executed.outcome.value.starts_with_error

\* C24: when the delegation timeout expires both the child's turn task and
\* the progress subscriber are cancelled: once sub_agent has returned the
\* timeout failure neither task is running nor has a step or a publish task
\* left on the loop, the child has made no provider call, no tool invocation
\* and no publication since the return, and no subscriber queue is registered
\* for the child session.
C24_TimeoutCancelsBoth ==
    wait_for.pc = "returned_timeout" =>
        /\ TaskDone(child_task) /\ TaskDone(display_task)
        /\ child_task.pc = "cancelled" \/ display_task.pc = "cancelled"
        /\ \A i \in 1..Len(loop_ready) : loop_ready[i] \notin {"child", "display", "publish"}
        /\ CountersNow = at_return
        /\ child_subscribers = {}

\* C24 witness: sub_agent returned the timeout failure after the child had
\* invoked a tool and the subscriber had registered its queue; both tasks
\* were cancelled
C24_Witness ==
    /\ wait_for.pc = "returned_timeout"
    /\ child_task.pc = "cancelled" /\ display_task.pc = "cancelled"
    /\ agen = "closed"
    /\ tool_invocations > 0
    /\ loop_ready = <<>>

\* the needs-prompt calls whose execute_one has begun
SeqStarted == {p \in 1..Len(needs_permission) : tool_trace[needs_permission[p]].events # <<>>}

\* C25: permission prompts are shown one at a time, in the order the LLM
\* produced the calls: the needs-prompt calls are kept in call order and one
\* begins only when those before it have returned; a call classified as
\* auto-resolved never shows a prompt when it is dispatched; and while a
\* prompt is outstanding no auto-resolved call has been dispatched.
C25_PromptsSequential ==
    /\ \A p, q \in 1..Len(needs_permission) :
         p < q => needs_permission[p] < needs_permission[q]
    /\ \A p \in SeqStarted : p <= Len(results_with_permission) + 1
    /\ \A k \in 1..Len(auto_approved) :
         /\ autoPhase[k] # "prompt"
         /\ ~tool_trace[auto_approved[k]].prompted
    /\ seqPhase = "prompt" =>
         /\ execPc = "sequential"
         /\ tool_trace[SeqIndex].prompted
         /\ \A k \in 1..Len(auto_approved) : autoPhase[k] = "new"

\* C25 witness: an auto-resolved call is running after a needs-prompt call
\* of the same batch had shown its prompt and returned
C25_Witness ==
    /\ execPc = "gather"
    /\ \E k \in 1..Len(auto_approved) : autoPhase[k] = "running"
    /\ \E p \in 1..Len(needs_permission) : tool_trace[needs_permission[p]].prompted

\* C26: a tool's handler is invoked only after the permission decision for
\* that very call was allow; a call of a tool configured never, a call the
\* denylist denies (permission ask, approve-all unset, a denylist pattern and
\* no allowlist pattern matches) and a call the user denies are decided deny,
\* and for a denied call the handler is never invoked and the result is the
\* fixed message "Error: Tool execution denied by user or policy.".
C26_HandlerOnlyAfterAllow ==
    \A i \in 1..Len(tool_calls) :
        LET call == tool_calls[i]
            d == decisions[i]
        IN /\ tool_trace[i].invoked => d.decision = "allow"
           /\ d.decision = "deny" =>
                /\ ~tool_trace[i].invoked
                /\ ResultsOf(i) = {Message(call, "denied")}
           /\ (Parses(call) /\ PermissionOf(call.tool) = "never"
                  /\ tool_trace[i].events # <<>>) => d.decision = "deny"
           /\ (PermissionOf(call.tool) = "ask" /\ MatchesDenylist(call)
                  /\ ~MatchesAllowlist(call) /\ d.decision # "none" /\ ~d.flag) =>
                d.decision = "deny"
           /\ d.answer = "n" => d.decision = "deny"

\* C26 witness: execute_tools has returned a batch in which the user denied
\* one call, whose result is the fixed message, and a call of a tool
\* configured never was denied as well
C26_Witness ==
    /\ execPc = "done"
    /\ \E i, j \in 1..Len(tool_calls) :
         /\ decisions[i].answer = "n"
         /\ ~tool_trace[i].invoked
         /\ ResultsOf(i) = {Message(tool_calls[i], "denied")}
         /\ PermissionOf(tool_calls[j].tool) = "never"
         /\ ResultsOf(j) = {Message(tool_calls[j], "denied")}

\* execute_one of call i has ended, with a result or with an exception
ExecuteOneEnded(i) ==
    \/ ResultsOf(i) # {}
    \/ execPc = "raised" /\ SeqIndex = i

\* C27: for every call whose arguments parse, tool_start is published first
\* and then exactly one terminal event: tool_done if and only if the handler
\* ran and its result does not start with "Error:" (recorded with
\* success=true), otherwise tool_error (a denied call, a result that starts
\* with "Error:"; what is recorded then has success=false).
C27_StartThenOneTerminal ==
    \A i \in 1..Len(tool_calls) :
        Parses(tool_calls[i]) =>
            LET tr == tool_trace[i]
                ok == Message(tool_calls[i], "ok")
            IN /\ tr.events \in {<<>>, <<"tool_start">>,
                                 <<"tool_start", "tool_done">>,
                                 <<"tool_start", "tool_error">>}
               /\ ExecuteOneEnded(i) => Len(tr.events) = 2
               /\ Len(tr.events) = 2 =>
                    /\ tr.events[2] = "tool_done" <=>
                          (tr.invoked /\ ResultsOf(i) = {ok})
                    /\ tr.events[2] = "tool_done" => tr.recorded = "success"
                    /\ tr.events[2] = "tool_error" => tr.recorded # "success"

\* the changes of state of the turn loop's chain
\* idle -> thinking -> executing -> thinking -> ... -> completed or failed
ChainEdges ==
    {<<"idle", "thinking">>, <<"thinking", "executing">>, <<"executing", "thinking">>,
     <<"thinking", "completed">>, <<"thinking", "failed">>, <<"executing", "failed">>}

\* waiting_for_child entered and left
WaitingEdges == {<<"executing", "waiting">>, <<"waiting", "executing">>}

\* C28: the agent's status.state changes only along idle -> thinking ->
\* executing_tools -> thinking -> ... -> completed or failed, with
\* waiting_for_child entered and left only by a delegation, over one run and
\* over successive runs of the same agent, and every change of state
\* publishes exactly one agent_state_change event that carries the new state.
C28_StateChain ==
    \A k \in 1..Len(updates) :
        LET u == updates[k] IN
        u.from # u.to =>
            /\ \/ <<u.from, u.to>> \in ChainEdges
               \/ <<u.from, u.to>> \in WaitingEdges /\ u.by = "sub_agent"
            /\ u.events = <<u.to>>

\* the delegations made for parent a
DelegationsOf(a) == {c \in 1..Len(delegations) : delegations[c].parent = a}

\* C29: while a child session id is in parent.child_sessions the parent's
\* state is waiting_for_child, also when several sub_agent calls of one
\* batch run concurrently; once the last child has succeeded (every
\* delegation of the parent has returned its work report) the parent is
\* back in executing_tools.
C29_WaitingWhileChildren ==
    \A a \in DOMAIN child_sessions :
        /\ child_sessions[a] # <<>> => status_state[a] = "waiting_for_child"
        /\ (/\ DelegationsOf(a) # {}
            /\ \A c \in DelegationsOf(a) :
                 delegations[c].pc = "returned" /\ delegations[c].cause = "none")
              => status_state[a] = "executing_tools"

\* C30 (as stated): a timeout failure is marked retryable exactly when the
\* child's execution log holds at least one successful tool execution; a
\* child whose executions all failed, or that ran no tool, is not retryable,
\* and the retry action (twice the timeout) is suggested exactly then
C30_RetryableIffSuccessfulTool ==
    analysis_pc = "timed_out" =>
        /\ child_failure.suggested_retry <=>
             \E i \in 1..Len(execution_log) : execution_log[i].success
        /\ child_failure.suggested_retry <=>
             [action |-> "retry", timeout |-> analysis_timeout * 2]
                 \in {child_failure.suggested_actions[i] :
                        i \in 1..Len(child_failure.suggested_actions)}

\* C31 (as stated): the assistant message assembled from a stream lists its
\* tool calls sorted by their stream index, whatever order the indices first
\* appeared in, and each call's arguments are the concatenation of the
\* fragments received for its own index, in arrival order
C31_ToolCallsSortedByIndex ==
    stream_pc = "returned" =>
        LET calls == stream_message.tool_calls
            OwnDeltas(idx) == SelectSeq(stream_deltas, LAMBDA tc : tc.index = idx)
            Fragments(idx) == [k \in 1..Len(OwnDeltas(idx)) |-> OwnDeltas(idx)[k].arguments]
        IN /\ \A i, j \in 1..Len(calls) : i < j => calls[i].index < calls[j].index
           /\ {calls[i].index : i \in 1..Len(calls)}
                = {stream_deltas[k].index : k \in 1..Len(stream_deltas)}
           /\ \A i \in 1..Len(calls) :
                calls[i].arguments = JoinFragments(Fragments(calls[i].index))

\* C32 (as stated): after a child has executed read_file, write_file or
\* edit_file on a path p, p is an element of files_read, files_written or
\* files_edited respectively, and so of files_modified for a write or an edit
C32_FilesTracked ==
    \A k \in 1..Len(execution_log) :
        LET te == execution_log[k] IN
        te.args.key = "path" =>
            /\ te.tool_name = "read_file" => te.args.value \in files_read
            /\ te.tool_name = "write_file" =>
                 te.args.value \in files_written /\ te.args.value \in FilesModified
            /\ te.tool_name = "edit_file" =>
                 te.args.value \in files_edited /\ te.args.value \in FilesModified

-----------------------------------------------------------------------------
(* Properties of the todo tool: writes over outstanding items, the observers *)

\* C33 (as stated): a write whose list has distinct ids and at most one
\* in_progress item is accepted and replaces the store, also when the store
\* holds items that are not completed; a write is rejected only for its list
C33_WriteAcceptedOverOutstanding ==
    todoResult.action = "write" =>
        (todoResult.wellformed => todoResult.outcome = "ok")

-----------------------------------------------------------------------------
(* Properties of successive runs of one agent *)

\* every assistant message with tool calls is followed by a tool message for
\* each of its call ids, only tool messages in between
CallsAnswered(msgs) ==
    \A i \in 1..Len(msgs) :
        \A id \in CallIds(msgs[i]) :
            \E j \in (i + 1)..Len(msgs) :
                /\ msgs[j].role = "tool" /\ msgs[j].tool_call_id = id
                /\ \A k \in (i + 1)..(j - 1) : msgs[k].role = "tool"

\* C34 (as stated): at every provider call, each assistant message with tool
\* calls in the messages sent is followed by a tool message for every one of
\* its call ids before any later user or assistant message, also in a run
\* that starts after an earlier run on the same memory ended while its tools
\* were executing
C34_CallsAnsweredAtProviderCall ==
    run_pc = "completion" =>
        CallsAnswered(GetMessages(run_memory.messages, run_memory.system_prompt))

-----------------------------------------------------------------------------
(* Properties of a delegation on the event loop: the end of the child's run *)

\* the agent_done events published for the child's session
AgentDoneCount == Len(SelectSeq(child_events, LAMBDA e : e = "agent_done"))

\* C35 (as stated): every run of Agent.run that ends, by returning, by raising
\* or by being cancelled, publishes exactly one agent_done event for its
\* session (a run has begun once its first step has run)
C35_OneAgentDonePerEndedRun ==
    (TaskDone(child_task) /\ child_task.turn > 0) => AgentDoneCount = 1

\* the delegation has returned to the parent
DelegationReturned ==
    wait_for.pc \in {"returned_success", "returned_timeout", "returned_exception"}

-----------------------------------------------------------------------------
(* Properties of delegation: the parent's state on the failure paths *)

\* C37 (as stated): when sub_agent has returned after a timeout or a child
\* exception, and no other delegation of the parent is in flight, the parent's
\* state is no longer waiting_for_child
C37_FailureLeavesWaiting ==
    \A c \in 1..Len(delegations) :
        (/\ delegations[c].pc = "returned"
         /\ delegations[c].cause \in {"timeout", "child_raised"}
         /\ \A e \in DelegationsOf(delegations[c].parent) : delegations[e].pc = "returned")
            => status_state[delegations[c].parent] # "waiting_for_child"

-----------------------------------------------------------------------------
(* Properties of the tool executor: the list execute_tools returns *)

\* C38 (as stated): execute_tools returns exactly one tool message per input
\* call: the multiset of the returned tool_call_id values equals the multiset
\* of the input call ids, whatever the partition and whichever calls fail
C38_OneMessagePerCall ==
    execPc = "done" =>
        /\ Len(processed) = Len(tool_calls)
        /\ \A i \in 1..Len(tool_calls) :
              Cardinality({k \in 1..Len(processed) :
                              processed[k].tool_call_id = tool_calls[i].id}) = 1

-----------------------------------------------------------------------------
(* Properties of the tool registry: the schema list *)

\* the schemas a registry holds for a name
SchemasFor(reg, name) == {i \in 1..Len(reg.schemas) : reg.schemas[i].name = name}

\* exactly one schema for each registered name, none for any other name
OneSchemaPerName(reg) ==
    /\ \A name \in RegistryNames(reg) : Cardinality(SchemasFor(reg, name)) = 1
    /\ \A i \in 1..Len(reg.schemas) : reg.schemas[i].name \in RegistryNames(reg)

\* C39 (as stated): after any sequence of registrations, unregister, merge
\* and filter_by_mode calls the schema list of the registry, and of the
\* registry filter_by_mode returned, holds exactly one schema for each
\* registered name and none for a name that is not registered
C39_OneSchemaPerName ==
    /\ OneSchemaPerName(tool_registry)
    /\ regOp = "filter_by_mode" => OneSchemaPerName(filtered)

-----------------------------------------------------------------------------
(* Properties of the todo tool: the store and the state manager *)

\* C40: when the todo list is mutated only through the todo tool, after
\* every call of the tool the list held by the TodoStateManager equals the
\* list held by the tool's own store (same items, same order), for
\* successful, rejected and no-op calls alike.
C40_ObserverMatchesStore == observed = todos

\* C40 witness: complete replaced an item of a stored list of two in place
\* and the state manager holds the list with the completed item.
C40_Witness ==
    /\ todoResult.action = "complete" /\ todoResult.outcome = "ok"
    /\ todoResult.stored /\ todoResult.told
    /\ Len(todos) = 2
    /\ \E i \in 1..Len(todos) : todos[i].status = "completed"
    /\ observed = todos

=============================================================================
